---- MODULE Spec2Model ----
(***************************************************************************)
(* Trading checklist (DailyChecklistHistory.tsx): the rule evaluator, the  *)
(* configuration reconciler and the component that loads a range of days.  *)
(*                                                                         *)
(* Representation of JavaScript values.                                    *)
(*  - A JS value is a record tagged by its type in field t; the payload    *)
(*    field is named after the type (n, s, b, l, o), so that values of     *)
(*    different types are comparable.                                      *)
(*  - A JS number is fixed-point with one decimal digit: Num(k) is the     *)
(*    number k/10 (Num(15) is 1.5, Num(50) is 5).  NaN is a value of its   *)
(*    own.                                                                 *)
(*  - A JS string whose characters the code reads (a rule name, a payload  *)
(*    value given to Number()) is a sequence of one-character strings.     *)
(*    Text the code only builds for display is a TLA+ string, built from   *)
(*    such sequences by Text().                                            *)
(***************************************************************************)
EXTENDS Integers, Sequences, FiniteSets, TLC

VARIABLES
    \* ---- parseRulesToSettings applied to drawn inputs (SpecParse)
    prRules,      \* the record collection given to parseRulesToSettings
    prBase,       \* the base settings given to it
    prBase0,      \* the base settings as they were before the call
    prOut,        \* the completion of the call; NotRun before it
    \* ---- the rule evaluator applied to drawn inputs (SpecEval)
    evDate,       \* the day evaluated
    evTel,        \* its telemetry
    evSettings,   \* the settings
    evPlans,      \* the plans by date
    evJournals,   \* the journal entries by date
    evOut,        \* the completion of the evaluation; NotRun before it
    \* ---- saveSettingsToBackend applied to drawn inputs (SpecSave)
    svSettings,   \* the settings given to saveSettingsToBackend
    svExisting,   \* the loaded record collection given to it, or null
    svOut,        \* the completion of the call; NotRun before it
    \* ---- the range summary and the export rows of drawn days (SpecSummary)
    smDays,       \* the days of listWithExtras
    smOut,        \* what the summary, the export rows and the day cards compute
    \* ---- buildCsv applied to drawn rows (SpecCsv)
    csvRows,      \* the rows given to buildCsv
    csvOut,       \* the string it returns; NotRun before the call
    \* ---- the DailyChecklistHistory component (Spec)
    trader,       \* useState("trader_01")
    focusDate,    \* useState(ymd(new Date()))
    rangeDays,    \* useState(7)
    settings,     \* useState<RuleSettings>({...})
    serverRules,  \* useState<APIRule[] | null>(null)
    list,         \* useState<ChecklistDay[]>([])
    loading,      \* useState(false)
    pending,      \* the range loads in flight, oldest first
    lastSave,     \* history: the outcome of the latest handleSaveSettings
    shown,        \* history: the load whose result list holds, if any
    \* ---- the component's plans and journal entries, and the backend's
    plans,        \* useState<Record<string, PreTradePlan | undefined>>({})
    journals,     \* useState<Record<string, TradeJournalEntry[]>>({})
    planHistory,  \* useState<Record<string, PlanHistoryEntry[]>>({})
    planStore,    \* the backend's items of type "daily", oldest first
    journalStore, \* the backend's items of type "pre_entry", oldest first
    inFlight,     \* the requests to the backend that have not settled
    planSaves,    \* the number of plan saves made for each date
    entrySaves,   \* the number of journal entries saved
    savedEntries, \* history: the journal entries saved and not removed, by date
    removed,      \* history: the ids given to removeJournalEntry
    \* ---- the pre-entry journal form on drawn inputs (SpecForm)
    jfIn,         \* the form's props and fields
    jfOut         \* the entry handed to onSave; NotRun before the save

parseVars == <<prRules, prBase, prBase0, prOut>>
evalVars == <<evDate, evTel, evSettings, evPlans, evJournals, evOut>>
saveVars == <<svSettings, svExisting, svOut>>
sumVars == <<smDays, smOut>>
csvVars == <<csvRows, csvOut>>
compVars ==
    <<trader, focusDate, rangeDays, settings, serverRules, list, loading, pending,
      lastSave, shown>>
\* The variables of the specifications of single functions.
formVars == <<jfIn, jfOut>>
functionVars == <<parseVars, evalVars, saveVars, sumVars, csvVars, formVars>>
\* The plans and journal entries of the component, the backend's stores and
\* the requests in flight.
noteVars ==
    <<plans, journals, planHistory, planStore, journalStore, inFlight, planSaves,
      entrySaves, savedEntries, removed>>
vars == <<functionVars, compVars, noteVars>>

----------------------------------------------------------------------------
\* JS values

Undefined == [t |-> "undef"]
Null == [t |-> "null"]
NaN == [t |-> "nan"]
Num(k) == [t |-> "num", n |-> k]
Str(chars) == [t |-> "str", s |-> chars]
Bool(b) == [t |-> "bool", b |-> b]
List(items) == [t |-> "list", l |-> items]
Obj(fields) == [t |-> "obj", o |-> fields]

\* A completion of a call: a normal return or a thrown exception.
Normal(v) == [c |-> "normal", value |-> v]
Throw(e) == [c |-> "throw", error |-> e]
NotRun == [c |-> "notrun"]

\* `v != null`
NotNullish(v) == v.t \notin {"undef", "null"}

\* `!!v`
Truthy(v) ==
    CASE v.t = "num" -> v.n # 0
      [] v.t = "str" -> v.s # <<>>
      [] v.t = "bool" -> v.b
      [] v.t \in {"list", "obj"} -> TRUE
      [] OTHER -> FALSE

\* `v?.f` and `v.f` on a non-nullish v: an own property of an object, else
\* undefined (the fields read here are no properties of a primitive or a list).
Get(v, f) == IF v.t = "obj" /\ f \in DOMAIN v.o THEN v.o[f] ELSE Undefined

----------------------------------------------------------------------------
\* Strings as character sequences

UpperChars == <<"A", "B", "C", "D", "E", "F", "G", "H", "I", "J", "K", "L", "M",
                "N", "O", "P", "Q", "R", "S", "T", "U", "V", "W", "X", "Y", "Z">>
LowerChars == <<"a", "b", "c", "d", "e", "f", "g", "h", "i", "j", "k", "l", "m",
                "n", "o", "p", "q", "r", "s", "t", "u", "v", "w", "x", "y", "z">>
Digits == <<"0", "1", "2", "3", "4", "5", "6", "7", "8", "9">>

toLowerCaseChar(ch) ==
    IF \E i \in DOMAIN UpperChars : UpperChars[i] = ch
    THEN LowerChars[CHOOSE i \in DOMAIN UpperChars : UpperChars[i] = ch]
    ELSE ch

\* String.prototype.toLowerCase
toLowerCase(s) == [i \in DOMAIN s |-> toLowerCaseChar(s[i])]

\* String.prototype.includes
includes(s, needle) ==
    \E k \in 0..(Len(s) - Len(needle)) :
        \A j \in 1..Len(needle) : s[k + j] = needle[j]

\* The TLA+ string of a character sequence.
RECURSIVE Text(_)
Text(s) == IF s = <<>> THEN "" ELSE Head(s) \o Text(Tail(s))

IsDigit(ch) == \E i \in DOMAIN Digits : Digits[i] = ch
DigitVal(ch) == (CHOOSE i \in DOMAIN Digits : Digits[i] = ch) - 1

\* The value of a sequence of decimal digits.
RECURSIVE DigitsVal(_)
DigitsVal(s) ==
    IF s = <<>> THEN 0
    ELSE 10 * DigitsVal(SubSeq(s, 1, Len(s) - 1)) + DigitVal(s[Len(s)])

AllDigits(s) == \A i \in DOMAIN s : IsDigit(s[i])

RECURSIVE TrimLeft(_)
TrimLeft(s) == IF s # <<>> /\ Head(s) = " " THEN TrimLeft(Tail(s)) ELSE s
RECURSIVE TrimRight(_)
TrimRight(s) ==
    IF s # <<>> /\ s[Len(s)] = " " THEN TrimRight(SubSeq(s, 1, Len(s) - 1)) ELSE s

\* An unsigned decimal literal with at most one fractional digit, as a JS
\* number; NaN when u is no decimal literal.  (Longer fractions, exponents,
\* hexadecimal and Infinity are outside the strings the model draws.)
UnsignedLiteral(u) ==
    LET dots == {i \in DOMAIN u : u[i] = "."}
    IN  IF dots = {}
        THEN IF u # <<>> /\ AllDigits(u) THEN Num(10 * DigitsVal(u)) ELSE NaN
        ELSE LET d == CHOOSE i \in dots : TRUE
                 int == SubSeq(u, 1, d - 1)
                 frac == SubSeq(u, d + 1, Len(u))
             IN  IF /\ Cardinality(dots) = 1
                    /\ AllDigits(int) /\ AllDigits(frac)
                    /\ Len(frac) <= 1
                    /\ int \o frac # <<>>
                 THEN Num(10 * DigitsVal(int) + DigitsVal(frac))
                 ELSE NaN

\* StringToNumber: white space is trimmed, the empty string is 0.
StringToNumber(s) ==
    LET t == TrimRight(TrimLeft(s))
    IN  IF t = <<>> THEN Num(0)
        ELSE IF Head(t) = "-"
             THEN LET m == UnsignedLiteral(Tail(t))
                  IN  IF m.t = "num" THEN Num(0 - m.n) ELSE NaN
             ELSE IF Head(t) = "+" THEN UnsignedLiteral(Tail(t))
             ELSE UnsignedLiteral(t)

\* Number::toString of a non-negative integer.
RECURSIVE NatToChars(_)
NatToChars(k) ==
    IF k < 10 THEN <<Digits[k + 1]>>
    ELSE NatToChars(k \div 10) \o <<Digits[(k % 10) + 1]>>

\* `${v}` of a JS number, as characters: 5, 1.5, -0.2, NaN.
NumberToChars(v) ==
    IF v.t # "num" THEN <<"N", "a", "N">>
    ELSE LET a == IF v.n < 0 THEN 0 - v.n ELSE v.n
             sign == IF v.n < 0 THEN <<"-">> ELSE <<>>
             frac == IF a % 10 = 0 THEN <<>> ELSE <<".", Digits[(a % 10) + 1]>>
         IN  sign \o NatToChars(a \div 10) \o frac

\* `${v}` of a JS number, as display text.
NumberText(v) == Text(NumberToChars(v))

\* String(v) of a primitive, as characters (used by Number() on a list).
ToChars(v) ==
    CASE v.t = "str" -> v.s
      [] v.t \in {"num", "nan"} -> NumberToChars(v)
      [] v.t = "bool" -> IF v.b THEN <<"t", "r", "u", "e">> ELSE <<"f", "a", "l", "s", "e">>
      [] OTHER -> <<>>

\* Number(v): ToNumber.
Number(v) ==
    CASE v.t = "num" -> v
      [] v.t = "nan" -> NaN
      [] v.t = "str" -> StringToNumber(v.s)
      [] v.t = "bool" -> IF v.b THEN Num(10) ELSE Num(0)
      [] v.t = "null" -> Num(0)
      [] v.t = "list" ->
            IF v.l = <<>> THEN Num(0)
            ELSE IF Len(v.l) = 1 /\ v.l[1].t \in {"str", "num", "nan", "bool"}
                 THEN StringToNumber(ToChars(v.l[1]))
                 ELSE NaN
      [] OTHER -> NaN

\* a <= b on JS numbers: false when either is NaN.
Leq(a, b) == a.t = "num" /\ b.t = "num" /\ a.n <= b.n
\* a >= b, a > b on JS numbers.
Geq(a, b) == Leq(b, a)
Gt(a, b) == a.t = "num" /\ b.t = "num" /\ a.n > b.n

----------------------------------------------------------------------------
\* Settings

Session(start, end, tz, label) ==
    Obj([start |-> start, end |-> end, tz |-> tz, label |-> label])

SettingsFields ==
    {"maxRiskPercent", "maxPositions", "maxLotsPerTrade", "maxSLPercent",
     "maxDailyDDPercent", "minRRAllowed", "allowedSessions", "violateOutsideSession",
     "maxSLTPChangePercent", "requireFirstTradeGoal", "requireJournalBeforeNewTrade"}

\* The settings the component starts with.
DefaultSettings ==
    [maxRiskPercent |-> Num(50),
     maxPositions |-> Num(50),
     maxLotsPerTrade |-> Num(10),
     maxSLPercent |-> Num(20),
     maxDailyDDPercent |-> Num(50),
     minRRAllowed |-> Num(15),
     allowedSessions |->
        List(<<Session("07:00", "11:00", "Asia/Ho_Chi_Minh", "London AM"),
               Session("19:00", "23:00", "Asia/Ho_Chi_Minh", "NY")>>),
     violateOutsideSession |-> Bool(TRUE),
     maxSLTPChangePercent |-> Num(100),
     requireFirstTradeGoal |-> Bool(TRUE),
     requireJournalBeforeNewTrade |-> Bool(TRUE)]

----------------------------------------------------------------------------
\* Configuration reconciler, forward mapping

\* An APIRule as the backend's JSON delivers it: name and condition are
\* whatever the payload holds.
APIRule(id, name, condition) == [id |-> id, name |-> name, condition |-> condition]

\* `r?.condition` of the result of a find (a rule, or undefined).
ConditionOf(r) == IF "condition" \in DOMAIN r THEN r.condition ELSE Undefined

\* r.name.toLowerCase().includes(needle.toLowerCase()) for a rule whose name
\* is a string.
NameIncludes(r, needle) == includes(toLowerCase(r.name.s), toLowerCase(needle))

\* byName(needle): rules.find(r => r.name.toLowerCase().includes(...)).  The
\* callback runs on the records in order up to the first match; on a record
\* whose name is no string, r.name.toLowerCase() throws a TypeError.
byName(rules, needle) ==
    LET stop == {i \in DOMAIN rules :
                    rules[i].name.t # "str" \/ NameIncludes(rules[i], needle)}
    IN  IF stop = {} THEN Normal(Undefined)
        ELSE LET i == CHOOSE k \in stop : \A m \in stop : k <= m
             IN  IF rules[i].name.t # "str" THEN Throw("TypeError")
                 ELSE Normal(rules[i])

\* /journal/i.test(r.name): the name is converted to a string first (undefined
\* and null give "undefined" and "null", a number its digits).
JournalTest(r) ==
    r.name.t = "str" /\ includes(toLowerCase(r.name.s), <<"j", "o", "u", "r", "n", "a", "l">>)

\* rules.find(r => /journal/i.test(r.name))
findJournal(rules) ==
    LET hit == {i \in DOMAIN rules : JournalTest(rules[i])}
    IN  IF hit = {} THEN Undefined
        ELSE rules[CHOOSE k \in hit : \A m \in hit : k <= m]

NeedleMaxRisk == <<"M", "a", "x", " ", "R", "i", "s", "k">>
NeedleNoOvertrade == <<"N", "o", " ", "O", "v", "e", "r", "t", "r", "a", "d", "e">>
NeedleMaxSL == <<"M", "a", "x", " ", "S", "L">>
NeedleMaxDailyDD == <<"M", "a", "x", " ", "D", "a", "i", "l", "y", " ", "D", "D">>
NeedleRRTarget ==
    <<"R", "R", " ", "T", "a", "r", "g", "e", "t", " ", "D", "e", "c", "l", "a", "r", "e", "d">>
NeedleSessions ==
    <<"A", "l", "l", "o", "w", "e", "d", " ", "T", "r", "a", "d", "i", "n", "g", " ",
      "S", "e", "s", "s", "i", "o", "n", "s">>
NeedleFirstTrade ==
    <<"F", "i", "r", "s", "t", " ", "T", "r", "a", "d", "e", " ", "M", "u", "s", "t", " ",
      "H", "a", "v", "e", " ", "G", "o", "a", "l">>
NeedleChange ==
    <<"M", "a", "x", " ", "S", "L", "/", "T", "P", " ", "C", "h", "a", "n", "g", "e">>

\* `!rule.name.toLowerCase().includes("change")` of the reverse mapping.
WordChange == <<"c", "h", "a", "n", "g", "e">>

\* Mutant of CopyOf: the result starts from the defaults (replace, not merge).
CopyOf_Defaults(base) == DefaultSettings

\* `const out = { ...base }`: a new object with base's fields.
CopyOf(base) == base

\* The settings parseRulesToSettings returns when no find throws: a copy of
\* base in which a field is overwritten when the payload field of its
\* category's record is non-null (truthy, for allowed_sessions).
ParsedSettings(rules, base) ==
    LET out == CopyOf(base)
        cond(needle) == ConditionOf(byName(rules, needle).value)
        maxRisk == cond(NeedleMaxRisk)
        noOver == cond(NeedleNoOvertrade)
        maxSL == cond(NeedleMaxSL)
        maxDD == cond(NeedleMaxDailyDD)
        rr == cond(NeedleRRTarget)
        sessions == cond(NeedleSessions)
        first == cond(NeedleFirstTrade)
        change == cond(NeedleChange)
        journal == ConditionOf(findJournal(rules))
        num(c, f, old) == IF NotNullish(Get(c, f)) THEN Number(Get(c, f)) ELSE old
        flag(c, f, old) == IF NotNullish(Get(c, f)) THEN Bool(Truthy(Get(c, f))) ELSE old
    IN  [maxRiskPercent |-> num(maxRisk, "max_risk_percent", out.maxRiskPercent),
         maxPositions |-> num(noOver, "max_positions", out.maxPositions),
         maxLotsPerTrade |-> num(noOver, "max_lots_per_trade", out.maxLotsPerTrade),
         maxSLPercent |-> num(maxSL, "max_sl_percent", out.maxSLPercent),
         maxDailyDDPercent |-> num(maxDD, "max_dd_percent", out.maxDailyDDPercent),
         minRRAllowed |-> num(rr, "min_rr_allowed", out.minRRAllowed),
         allowedSessions |->
            IF Truthy(Get(sessions, "allowed_sessions"))
            THEN Get(sessions, "allowed_sessions")
            ELSE out.allowedSessions,
         violateOutsideSession |->
            flag(sessions, "violate_outside_session", out.violateOutsideSession),
         maxSLTPChangePercent |->
            num(change, "max_sl_tp_change_percent", out.maxSLTPChangePercent),
         requireFirstTradeGoal |->
            flag(first, "require_first_trade_goal", out.requireFirstTradeGoal),
         requireJournalBeforeNewTrade |->
            flag(journal, "require_journal_before_new_trade",
                 out.requireJournalBeforeNewTrade)]

\* The eight byName calls of parseRulesToSettings, in the order it makes them.
ParseNeedles ==
    <<NeedleMaxRisk, NeedleNoOvertrade, NeedleMaxSL, NeedleMaxDailyDD,
      NeedleRRTarget, NeedleSessions, NeedleFirstTrade, NeedleChange>>

\* parseRulesToSettings(rules, base): the exception of the first find that
\* throws, else the settings.
parseRulesToSettings(rules, base) ==
    IF \E k \in DOMAIN ParseNeedles : byName(rules, ParseNeedles[k]).c = "throw"
    THEN Throw("TypeError")
    ELSE Normal(ParsedSettings(rules, base))

\* No call of parseRulesToSettings is under way.
ParseIdle ==
    /\ prRules = <<>>
    /\ prBase = DefaultSettings
    /\ prBase0 = DefaultSettings
    /\ prOut = NotRun

----------------------------------------------------------------------------
\* Configuration reconciler, reverse mapping (saveSettingsToBackend)
\*
\* A description is display text (accents are left out).  The body of the
\* bulk write is the value JSON.stringify serialises, not its text.

\* Mutant of NoRulesLoaded: only the empty collection is refused.
NoRulesLoaded_EmptyOnly(existing) == existing.t = "list" /\ existing.l = <<>>

\* `!existing || !existing.length`
NoRulesLoaded(existing) == existing = Null \/ (existing.t = "list" /\ existing.l = <<>>)

\* The index i of a string or a list as a property key: "0", "1", ...
IndexKey(i) == Text(NatToChars(i - 1))

\* Mutant of Spread: the payload is replaced, not merged.
Spread_Nothing(v) == <<>>

\* `{ ...v }`: the own enumerable properties of v.  A string spreads into its
\* characters and a list into its items, by index; undefined, null, a number
\* and a boolean have none.
Spread(v) ==
    CASE v.t = "obj" -> v.o
      [] v.t = "str" ->
            [k \in {IndexKey(i) : i \in DOMAIN v.s} |->
                Str(<<v.s[CHOOSE i \in DOMAIN v.s : IndexKey(i) = k]>>)]
      [] v.t = "list" ->
            [k \in {IndexKey(i) : i \in DOMAIN v.l} |->
                v.l[CHOOSE i \in DOMAIN v.l : IndexKey(i) = k]]
      [] OTHER -> <<>>

\* `{ ...rec, ...patch }` on property records.
Merged(rec, patch) ==
    [k \in DOMAIN rec \cup DOMAIN patch |-> IF k \in DOMAIN patch THEN patch[k] ELSE rec[k]]

\* `{ ...rule.condition, field: value, ... }`
PatchedCondition(rule, patch) == Obj(Merged(Spread(ConditionOf(rule)), patch))

\* `Max Risk ${v}%` and the like.
PercentName(needle, v) == Str(needle \o <<" ">> \o NumberToChars(v) \o <<"%">>)

\* rule.name.toLowerCase().includes(literal), the literal in lower case.
NameHas(rule, literal) == includes(toLowerCase(rule.name.s), literal)

\* The callback of existing.map for a rule whose name is a string: a copy of
\* the rule, patched by the first branch of the if-else chain its name enters.
updatedRule(rule, st) ==
    LET cond(patch) == [condition |-> PatchedCondition(rule, patch)]
        titled(needle, v, description) ==
            [name |-> PercentName(needle, v), description |-> description]
    IN  IF NameHas(rule, toLowerCase(NeedleMaxRisk))
        THEN Merged(rule,
                Merged(cond([max_risk_percent |-> st.maxRiskPercent]),
                       titled(NeedleMaxRisk, st.maxRiskPercent,
                              "Khong duoc de rui ro vuot qua "
                                  \o NumberText(st.maxRiskPercent)
                                  \o "% tong tai khoan")))
        ELSE IF NameHas(rule, toLowerCase(NeedleNoOvertrade))
        THEN Merged(rule, cond([max_positions |-> st.maxPositions,
                                max_lots_per_trade |-> st.maxLotsPerTrade]))
        ELSE IF NameHas(rule, toLowerCase(NeedleMaxSL)) /\ ~NameHas(rule, WordChange)
        THEN Merged(rule,
                Merged(cond([max_sl_percent |-> st.maxSLPercent]),
                       titled(NeedleMaxSL, st.maxSLPercent,
                              "Stop loss khong duoc vuot qua "
                                  \o NumberText(st.maxSLPercent)
                                  \o "% tong tai khoan")))
        ELSE IF NameHas(rule, toLowerCase(NeedleMaxDailyDD))
        THEN Merged(rule,
                Merged(cond([max_dd_percent |-> st.maxDailyDDPercent]),
                       titled(NeedleMaxDailyDD, st.maxDailyDDPercent,
                              "Tong sut giam von (drawdown) trong ngay khong vuot qua "
                                  \o NumberText(st.maxDailyDDPercent)
                                  \o "% equity dau ngay")))
        ELSE IF NameHas(rule, toLowerCase(NeedleRRTarget))
        THEN Merged(rule, cond([min_rr_allowed |-> st.minRRAllowed]))
        ELSE IF NameHas(rule, toLowerCase(NeedleSessions))
        THEN Merged(rule, cond([allowed_sessions |-> st.allowedSessions,
                                violate_outside_session |-> st.violateOutsideSession]))
        ELSE IF NameHas(rule, toLowerCase(NeedleFirstTrade))
        THEN Merged(rule, cond([require_first_trade_goal |-> st.requireFirstTradeGoal]))
        ELSE IF NameHas(rule, toLowerCase(NeedleChange))
        THEN Merged(rule,
                Merged(cond([max_sl_tp_change_percent |-> st.maxSLTPChangePercent]),
                       titled(NeedleChange, st.maxSLTPChangePercent,
                              "Khong duoc thay doi SL/TP qua "
                                  \o NumberText(st.maxSLTPChangePercent)
                                  \o "% so voi khoang cach ban dau")))
        ELSE rule

\* existing.map(rule => ...): a TypeError when existing is no list, and when
\* rule.name.toLowerCase() is called on a rule whose name is no string.
updatedRules(existing, st) ==
    IF existing.t # "list" THEN Throw("TypeError")
    ELSE IF \E i \in DOMAIN existing.l : existing.l[i].name.t # "str"
         THEN Throw("TypeError")
         ELSE Normal([i \in DOMAIN existing.l |-> updatedRule(existing.l[i], st)])

\* What JSON.stringify writes for a payload value: NaN becomes null.
JsonValue(v) == IF v = NaN THEN Null ELSE v

\* A rule as JSON.stringify writes it: a property whose value is undefined is
\* left out, here and in the condition.
JsonRule(rule) ==
    LET cond == ConditionOf(rule)
        kept == {k \in DOMAIN rule : k = "id" \/ k = "description" \/ rule[k] # Undefined}
    IN  [k \in kept |->
            IF k = "condition" /\ cond.t = "obj"
            THEN Obj([f \in {g \in DOMAIN cond.o : cond.o[g] # Undefined} |->
                        JsonValue(cond.o[f])])
            ELSE rule[k]]

\* `JSON.stringify({ rules: updatedRules })`
BulkWriteBody(rules) == [rules |-> [i \in DOMAIN rules |-> JsonRule(rules[i])]]

ErrorNoRules == "No server rules loaded yet"

\* saveSettingsToBackend(settings, existing), given whether the bulk write is
\* answered with an ok status: how the promise settles, and the body of the
\* request it has issued, if any.
saveSettingsToBackend(st, existing, ok) ==
    IF NoRulesLoaded(existing)
    THEN [c |-> "throw", e |-> ErrorNoRules, posted |-> FALSE, body |-> <<>>]
    ELSE LET rules == updatedRules(existing, st)
         IN  IF rules.c = "throw"
             THEN [c |-> "throw", e |-> "TypeError", posted |-> FALSE, body |-> <<>>]
             ELSE [c |-> IF ok THEN "normal" ELSE "throw",
                   e |-> IF ok THEN "" ELSE "Failed to save settings",
                   posted |-> TRUE,
                   body |-> BulkWriteBody(rules.value)]

\* No call of saveSettingsToBackend, no aggregation and no call of buildCsv is
\* under way.
SaveIdle ==
    /\ svSettings = DefaultSettings
    /\ svExisting = Null
    /\ svOut = NotRun

SumIdle ==
    /\ smDays = <<>>
    /\ smOut = NotRun

CsvIdle ==
    /\ csvRows = <<>>
    /\ csvOut = NotRun

FormIdle ==
    /\ jfIn = <<>>
    /\ jfOut = NotRun

\* No plan and no journal entry, here and in the backend; no request in flight.
NoteIdle ==
    /\ plans = <<>>
    /\ journals = <<>>
    /\ planHistory = <<>>
    /\ planStore = <<>>
    /\ journalStore = <<>>
    /\ inFlight = <<>>
    /\ planSaves = <<>>
    /\ entrySaves = 0
    /\ savedEntries = <<>>
    /\ removed = {}

----------------------------------------------------------------------------
\* Rule evaluator: the seven verdicts of buildFakeDay

RuleCheck(key, title, description, pass, level, value, limit, notes) ==
    [key |-> key, title |-> title, description |-> description, pass |-> pass,
     level |-> level, value |-> value, limit |-> limit, notes |-> notes]

\* `${n}%` as a JS string.
PercentStr(n) == Str(NumberToChars(n) \o <<"%">>)

\* seq.join(sep) of display texts.
RECURSIVE JoinText(_, _)
JoinText(texts, sep) ==
    IF texts = <<>> THEN ""
    ELSE IF Len(texts) = 1 THEN texts[1]
    ELSE texts[1] \o sep \o JoinText(Tail(texts), sep)

\* `${s.label || ""} ${s.start}-${s.end} (${s.tz})`
SessionText(s) ==
    s.o.label \o " " \o s.o.start \o "-" \o s.o.end \o " (" \o s.o.tz \o ")"

\* The notes without the text that stands in for an empty list.
SessionsNotes_NoFallback(sessions) ==
    JoinText([i \in DOMAIN sessions.l |-> SessionText(sessions.l[i])], "; ")

\* settings.allowedSessions.map(...).join("; ") || "No sessions set"
SessionsNotes(sessions) ==
    LET joined == JoinText([i \in DOMAIN sessions.l |-> SessionText(sessions.l[i])], "; ")
    IN  IF joined = "" THEN "No sessions set" ELSE joined

\* Mutant of WithinLimit: a value equal to its threshold fails.
WithinLimit_Strict(measured, limit) ==
    measured.t = "num" /\ limit.t = "num" /\ measured.n < limit.n

\* The comparison of a measured value with its threshold.
WithinLimit(measured, limit) == Leq(measured, limit)

\* The level of a verdict that passes (info) or fails (failLevel).
LevelOf(ok, failLevel) == IF ok THEN "info" ELSE failLevel

\* The `rules` array of buildFakeDay, from the day's telemetry and the settings.
BaseRules(tel, st) ==
    LET riskOk == WithinLimit(tel.riskPerTrade, st.maxRiskPercent)
        tradesOk == WithinLimit(tel.trades, st.maxPositions)
        slOk == WithinLimit(tel.riskPerTrade, st.maxSLPercent)
        ddOk == WithinLimit(tel.dd, st.maxDailyDDPercent)
    IN  <<RuleCheck("max_risk_percent",
                    "Max Risk " \o NumberText(st.maxRiskPercent) \o "%",
                    "Risk per trade must not exceed % of total account",
                    riskOk, LevelOf(riskOk, "error"),
                    PercentStr(tel.riskPerTrade), PercentStr(st.maxRiskPercent),
                    IF riskOk THEN "Within risk limit" ELSE "Risk exceeded"),
          RuleCheck("no_overtrade",
                    "No Overtrade",
                    "Must not open too many positions at once",
                    tradesOk, LevelOf(tradesOk, "warning"),
                    tel.trades, st.maxPositions,
                    IF tradesOk THEN "Position count OK"
                    ELSE "Too many positions: " \o NumberText(tel.trades)),
          RuleCheck("stop_loss_required",
                    "Stop Loss Required",
                    "Stop loss must be set for every trade",
                    tel.allHaveSL, LevelOf(tel.allHaveSL, "error"),
                    Undefined, Undefined,
                    IF tel.allHaveSL THEN "All trades have SL" ELSE "Some trades missing SL"),
          RuleCheck("max_sl_percent",
                    "Max SL " \o NumberText(st.maxSLPercent) \o "%",
                    "Stop loss must not exceed % of total account",
                    slOk, LevelOf(slOk, "error"),
                    PercentStr(tel.riskPerTrade), PercentStr(st.maxSLPercent),
                    IF slOk THEN "SL within limit" ELSE "SL exceeded"),
          RuleCheck("max_daily_dd",
                    "Max Daily DD " \o NumberText(st.maxDailyDDPercent) \o "%",
                    "Daily drawdown must not exceed % of opening equity",
                    ddOk, LevelOf(ddOk, "error"),
                    PercentStr(tel.dd), PercentStr(st.maxDailyDDPercent),
                    IF ddOk THEN "DD within limit" ELSE "DD exceeded"),
          RuleCheck("session_allowed",
                    "Allowed Trading Sessions",
                    "Only trade within the defined sessions",
                    TRUE, "info",
                    Undefined, Undefined,
                    SessionsNotes(st.allowedSessions)),
          RuleCheck("max_sl_tp_change_percent",
                    "Max SL/TP Change " \o NumberText(st.maxSLTPChangePercent) \o "%",
                    "SL/TP changes must not exceed % of initial distance",
                    TRUE, "warning",
                    Undefined, Undefined,
                    "Realtime check required")>>

\* The ChecklistDay buildFakeDay returns for a day's telemetry.  (equityClose,
\* a floating-point product that nothing reads, and journalUrl, a link, are
\* left out.)  settings.allowedSessions.map throws when the value is no list.
DayOf(dateISO, tr, tel, st) ==
    IF st.allowedSessions.t # "list" THEN Throw("TypeError")
    ELSE Normal([date |-> dateISO,
                 trader |-> tr,
                 equityOpen |-> tel.equityOpen,
                 ddPercent |-> tel.dd,
                 rules |-> BaseRules(tel, st),
                 tradesCount |-> tel.trades,
                 telemetry |-> [riskPerTradePct |-> tel.riskPerTrade,
                                allHaveSL |-> tel.allHaveSL]])

----------------------------------------------------------------------------
\* Dates and the mock telemetry of buildFakeDay
\*
\* A date string "YYYY-MM-DD" is the number of its day since 1970-01-01.  A
\* 32-bit integer is a pair <<hi, lo>> of 16-bit halves.

Half == 2 ^ 16

\* The current date (2025-01-10), and the days the focus date goes back from it.
Today == 20098
MaxBack == 1

DefaultTrader == "trader_01"
Traders == {DefaultTrader, "trader_2"}
\* Two of the options of the range select (7, 14, 30, 60).
RangeOptions == {7, 14}

\* The year, month and day of a date (the proleptic Gregorian calendar of
\* Date.prototype.toISOString), after 2000-03-01.
Civil(date) ==
    LET z == date + 719468
        era == z \div 146097
        doe == z - era * 146097
        yoe == (doe - doe \div 1460 + doe \div 36524 - doe \div 146096) \div 365
        doy == doe - (365 * yoe + yoe \div 4 - yoe \div 100)
        mp == (5 * doy + 2) \div 153
        m == IF mp < 10 THEN mp + 3 ELSE mp - 9
    IN  [y |-> yoe + era * 400 + (IF m <= 2 THEN 1 ELSE 0),
         m |-> m,
         d |-> doy - (153 * mp + 2) \div 5 + 1]

\* `parseInt(dateISO.replace(/-/g, ""), 10)`
DateDigits(date) ==
    LET c == Civil(date) IN c.y * 10000 + c.m * 100 + c.d

\* `addDays(iso, n)`
addDays(date, n) == date + n

\* a ^ b on 16-bit halves.
RECURSIVE XorBits(_, _, _)
XorBits(a, b, bits) ==
    IF bits = 0 THEN 0
    ELSE ((a + b) % 2) + 2 * XorBits(a \div 2, b \div 2, bits - 1)

Xor(x, y) == <<XorBits(x[1], y[1], 16), XorBits(x[2], y[2], 16)>>

\* x << 13 and x << 5
Shl13(x) == <<(x[1] * 8192 + x[2] \div 8) % Half, (x[2] * 8192) % Half>>
Shl5(x) == <<(x[1] * 32 + x[2] \div 2048) % Half, (x[2] * 32) % Half>>

\* x >> 17, the shift that keeps the sign.
Sar17(x) ==
    IF x[1] >= 32768 THEN <<Half - 1, 32768 + x[1] \div 2>>
    ELSE <<0, x[1] \div 2>>

\* One step of the generator: `x ^= x << 13; x ^= x >> 17; x ^= x << 5`.
XorShift(x) ==
    LET a == Xor(x, Shl13(x))
        b == Xor(a, Sar17(a))
    IN  Xor(b, Shl5(b))

\* The first n draws of rng(seed), as the states x takes; `seed || 123456789`.
RECURSIVE rng(_, _)
rng(seed, n) ==
    IF n = 0 THEN <<>>
    ELSE LET earlier == rng(seed, n - 1)
             x == IF seed = 0 THEN 123456789 ELSE seed
             last == IF n = 1 THEN <<x \div Half, x % Half>> ELSE earlier[n - 1]
         IN  Append(earlier, XorShift(last))

\* Math.floor(r * k) for the draw r = (x >>> 0) / 4294967296.
FloorMul(x, k) == (x[1] * k + (x[2] * k) \div Half) \div Half

\* Math.round(r * k) = floor(r * k + 1/2)
RoundMul(x, k) == (FloorMul(x, 2 * k) + 1) \div 2

\* The quantities buildFakeDay draws for a date and a trader, in draw order:
\* trades, riskPerTrade, dd, hasJournal, allHaveSL, eqOpen.  Percentages are
\* rounded to one decimal; r > 0.3 is floor(10 r) >= 3 and r > 0.15 is
\* floor(20 r) >= 3, as neither bound is a multiple of 2^-32.
Draws(dateISO, tr) ==
    LET base == DateDigits(dateISO) + Len(tr) * 97
        r == rng(base, 6)
    IN  [trades |-> Num(10 * FloorMul(r[1], 5)),
         riskPerTrade |-> Num(RoundMul(r[2], 30) + 2),
         dd |-> Num(RoundMul(r[3], 60)),
         hasJournal |-> FloorMul(r[4], 10) >= 3,
         allHaveSL |-> FloorMul(r[5], 20) >= 3,
         equityOpen |-> Num(10 * (10000 + RoundMul(r[6], 1000)))]

\* The draws of every date a range can hold and every trader, computed once.
DrawsTable ==
    [d \in (Today - MaxBack - 14)..Today, tr \in Traders |-> Draws(d, tr)]

Telemetry(dateISO, tr) ==
    IF <<dateISO, tr>> \in DOMAIN DrawsTable THEN DrawsTable[dateISO, tr]
    ELSE Draws(dateISO, tr)

\* buildFakeDay(dateISO, trader, settings)
buildFakeDay(dateISO, tr, st) ==
    DayOf(dateISO, tr, Telemetry(dateISO, tr), st)

\* loadChecklistRange after its delay: the days from startISO to endISO in
\* order, each built by buildFakeDay; the first exception rejects the promise.
loadChecklistRange(tr, startISO, endISO, st) ==
    LET n == IF endISO >= startISO THEN endISO - startISO + 1 ELSE 0
        days == [i \in 1..n |-> buildFakeDay(startISO + i - 1, tr, st)]
    IN  IF \E i \in 1..n : days[i].c = "throw" THEN Throw("TypeError")
        ELSE Normal([i \in 1..n |-> days[i].value])

----------------------------------------------------------------------------
\* Rule evaluator: the two verdicts listWithExtras adds

\* Mutant of Lookup: the entry of any date stands in for the day's own.
Lookup_AnyDate(record, key) ==
    IF DOMAIN record = {} THEN Undefined
    ELSE record[CHOOSE k \in DOMAIN record : \A m \in DOMAIN record : k <= m]

\* `record[key]`: the entry of a Record<string, T>, undefined when absent.
Lookup(record, key) == IF key \in DOMAIN record THEN record[key] ELSE Undefined

\* `x.length` of a list or a string; undefined (NaN in a comparison) otherwise.
LengthOf(v) ==
    CASE v.t = "list" -> Num(10 * Len(v.l))
      [] v.t = "str" -> Num(10 * Len(v.s))
      [] OTHER -> NaN

\* Mutant of TimesSet: the expected low time is not required.
TimesSet_HighOnly(plan) == Truthy(Get(plan, "expectedHighTime"))

\* `!!plan.expectedHighTime && !!plan.expectedLowTime`
TimesSet(plan) ==
    Truthy(Get(plan, "expectedHighTime")) /\ Truthy(Get(plan, "expectedLowTime"))

\* rrOk: the && chain is evaluated left to right and stops at the first false
\* operand; plan.plannedWindows.length throws when plannedWindows is nullish.
rrOk(plan, st) ==
    IF ~Truthy(plan) THEN Normal(FALSE)
    ELSE IF ~Geq(Number(Get(plan, "rrTarget")), Number(st.minRRAllowed))
         THEN Normal(FALSE)
    ELSE IF ~Truthy(Get(plan, "mood")) THEN Normal(FALSE)
    ELSE IF ~Gt(Number(Get(plan, "plannedTrades")), Num(0)) THEN Normal(FALSE)
    ELSE IF ~NotNullish(Get(plan, "plannedWindows")) THEN Throw("TypeError")
    ELSE IF ~Gt(LengthOf(Get(plan, "plannedWindows")), Num(0)) THEN Normal(FALSE)
    ELSE Normal(TimesSet(plan))

\* The level of the rr_target_declared verdict.
rrLevel(ok) == IF ok THEN "info" ELSE "warning"

\* rrRule of listWithExtras.  (The title's "greater or equal" sign and the
\* bullet of the notes are written in ASCII.)
rrRule(plan, st, ok) ==
    RuleCheck("rr_target_declared",
              "RR Target Declared (>= " \o NumberText(st.minRRAllowed) \o ")",
              "Must declare RR target/plan for first trade of the day",
              IF Truthy(st.requireFirstTradeGoal) THEN ok ELSE TRUE,
              rrLevel(ok),
              IF Truthy(plan)
              THEN Str(<<"R", "R", " ">> \o ToChars(Get(plan, "rrTarget")))
              ELSE Null,
              st.minRRAllowed,
              IF Truthy(plan)
              THEN Text(ToChars(Get(plan, "plannedTrades"))) \o " trades * "
                   \o Text(ToChars(Get(plan, "mood")))
              ELSE "RR target/plan not declared")

\* Mutant of JournalPass: an entry is required whatever the flag.
JournalPass_IgnoresFlag(required, n) == n > 0

\* The pass flag of the journal verdict for n entries.
JournalPass(required, n) == IF required THEN n > 0 ELSE TRUE

\* journalRule of listWithExtras.
journalRule(dayJournals, st) ==
    LET required == Truthy(st.requireJournalBeforeNewTrade)
        n == Len(dayJournals)
    IN  RuleCheck("journal_before_new_trade",
                  "Journal before new trade",
                  "Must write journal before opening a new trade",
                  JournalPass(required, n),
                  IF required /\ n = 0 THEN "warning" ELSE "info",
                  Num(10 * n),
                  IF required THEN Num(10) ELSE Num(0),
                  IF n # 0 THEN NumberText(Num(10 * n)) \o " entries"
                  ELSE "No pre-entry journal yet")

\* Mutant of WithExtras: the two added verdicts change places.
WithExtras_JournalFirst(rules, rr, journal) == rules \o <<journal, rr>>

\* `[...d.rules, rrRule, journalRule]`
WithExtras(rules, rr, journal) == rules \o <<rr, journal>>

\* One day of listWithExtras; the exception of rrOk when it throws.
DayWithExtras(d, plansByDate, journalsByDate, st) ==
    LET plan == Lookup(plansByDate, d.date)
        dayJournals == IF d.date \in DOMAIN journalsByDate THEN journalsByDate[d.date] ELSE <<>>
        ok == rrOk(plan, st)
    IN  IF ok.c = "throw" THEN ok
        ELSE Normal([d EXCEPT !.rules =
                        WithExtras(d.rules, rrRule(plan, st, ok.value),
                                   journalRule(dayJournals, st))])

\* listWithExtras: list.map over the days; the first exception ends it.
listWithExtras(lst, plansByDate, journalsByDate, st) ==
    LET days == [i \in DOMAIN lst |-> DayWithExtras(lst[i], plansByDate, journalsByDate, st)]
    IN  IF \E i \in DOMAIN days : days[i].c = "throw" THEN Throw("TypeError")
        ELSE Normal([i \in DOMAIN days |-> days[i].value])

----------------------------------------------------------------------------
\* The evaluator on drawn inputs

MaxJournals == 2

TelemetryOf(trades, risk, dd, allHaveSL) ==
    [trades |-> trades, riskPerTrade |-> risk, dd |-> dd, allHaveSL |-> allHaveSL,
     hasJournal |-> TRUE, equityOpen |-> Num(100000)]

\* Telemetry below, at and above the thresholds drawn with it.
DrawnTelemetry ==
    {TelemetryOf(trades, risk, dd, sl) :
        trades \in {Num(20), Num(50), Num(60)},
        risk \in {Num(2), Num(20), Num(32)},
        dd \in {Num(10), Num(50), Num(60)},
        sl \in BOOLEAN}

\* Settings that differ in the thresholds of the telemetry verdicts.
ThresholdSettings ==
    {[DefaultSettings EXCEPT !.maxRiskPercent = risk, !.maxPositions = pos,
                             !.maxSLPercent = sl, !.maxDailyDDPercent = dd,
                             !.allowedSessions = sessions] :
        risk \in {Num(20), Num(50)},
        pos \in {Num(50), Num(20)},
        sl \in {Num(20), Num(10), NaN},
        dd \in {Num(50), Num(5)},
        sessions \in {DefaultSettings.allowedSessions, List(<<>>)}}

\* Settings that differ in what the plan and journal verdicts read.
ExtrasSettings ==
    {[DefaultSettings EXCEPT !.minRRAllowed = rr, !.requireFirstTradeGoal = Bool(goal),
                             !.requireJournalBeforeNewTrade = Bool(journal)] :
        rr \in {Num(15), Num(20)}, goal \in BOOLEAN, journal \in BOOLEAN}

PreTradePlan(mood, plannedTrades, plannedWindows, high, low, rrTarget, submittedOn) ==
    Obj([mood |-> mood, plannedTrades |-> plannedTrades,
         plannedWindows |-> plannedWindows,
         expectedHighTime |-> high, expectedLowTime |-> low,
         rrTarget |-> rrTarget, notes |-> Str(<<>>),
         submittedAt |-> submittedOn])

MoodCalm == Str(<<"C", "a", "l", "m">>)
TimeNine == Str(<<"0", "9", ":", "0", "0">>)
TimeTen == Str(<<"1", "0", ":", "0", "0">>)
WindowA == Obj([start |-> TimeNine, end |-> TimeTen,
                label |-> Str(<<"S", "e", "t", "u", "p", " ", "A">>)])

\* A plan that meets every condition of the rr_target_declared verdict under
\* the drawn settings.
CompletePlan ==
    PreTradePlan(MoodCalm, Num(10), List(<<WindowA>>), TimeTen, TimeNine, Num(20), Today)

\* The plans of type PreTradePlan the evaluator is given: every field present
\* (the optional times possibly undefined), each condition met or not.
TypedPlans ==
    {PreTradePlan(mood, n, windows, high, low, rr, Today) :
        mood \in {Str(<<>>), MoodCalm},
        n \in {Num(0), Num(10)},
        windows \in {List(<<>>), List(<<WindowA>>)},
        high \in {Undefined, Str(<<>>), TimeTen},
        low \in {Undefined, Str(<<>>), TimeNine},
        rr \in {Num(10), Num(15), Num(20)}}

JournalEntry(id, createdOn) == [id |-> id, createdAt |-> createdOn]

\* n journal entries created on a date.
EntriesOn(date, n) == [i \in 1..n |-> JournalEntry(i, date)]

\* A Record<string, T> holding v under key when present.
RecordOf(key, present, v) == IF present THEN (key :> v) ELSE <<>>

\* No evaluation is under way.
EvalIdle ==
    /\ evDate = Today
    /\ evTel = TelemetryOf(Num(0), Num(0), Num(0), TRUE)
    /\ evSettings = DefaultSettings
    /\ evPlans = <<>>
    /\ evJournals = <<>>
    /\ evOut = NotRun

\* The component is not mounted.
CompIdle ==
    /\ trader = DefaultTrader
    /\ focusDate = Today
    /\ rangeDays = 7
    /\ settings = DefaultSettings
    /\ serverRules = Null
    /\ list = <<>>
    /\ loading = FALSE
    /\ pending = <<>>
    /\ lastSave = [t |-> "none"]
    /\ shown = [t |-> "none"]

\* Inputs that vary the telemetry and its thresholds.
InitEvalThresholds ==
    /\ evTel \in DrawnTelemetry
    /\ evSettings \in ThresholdSettings
    /\ evPlans = <<>>
    /\ evJournals = <<>>

\* Inputs that vary the plans, the journal entries and the settings read with
\* them: the evaluated day and the day before have a plan or none, and journal
\* entries or none.
InitEvalExtras ==
    /\ evTel = TelemetryOf(Num(20), Num(20), Num(10), TRUE)
    /\ evSettings \in ExtrasSettings
    /\ \E own \in TypedPlans \cup {Undefined}, other \in BOOLEAN :
          evPlans = RecordOf(Today, own # Undefined, own)
                    @@ RecordOf(Today - 1, other, CompletePlan)
    /\ \E n \in 0..MaxJournals, m \in 0..1 :
          evJournals = RecordOf(Today, n > 0, EntriesOn(Today, n))
                       @@ RecordOf(Today - 1, m > 0, EntriesOn(Today - 1, m))

InitEval ==
    /\ ParseIdle
    /\ SaveIdle
    /\ SumIdle
    /\ CsvIdle
    /\ CompIdle
    /\ FormIdle
    /\ NoteIdle
    /\ evDate = Today
    /\ evOut = NotRun
    /\ InitEvalThresholds \/ InitEvalExtras

\* evaluate: the day of buildFakeDay's verdicts, then listWithExtras on it.
Evaluate ==
    /\ evOut = NotRun
    /\ LET day == DayOf(evDate, DefaultTrader, evTel, evSettings)
       IN  evOut' = IF day.c = "throw" THEN day
                    ELSE listWithExtras(<<day.value>>, evPlans, evJournals, evSettings)
    /\ UNCHANGED <<evDate, evTel, evSettings, evPlans, evJournals>>
    /\ UNCHANGED <<parseVars, saveVars, sumVars, csvVars, compVars, formVars, noteVars>>

NextEval == Evaluate

SpecEval == InitEval /\ [][NextEval]_vars

----------------------------------------------------------------------------
\* Claims about the evaluator (under SpecEval)

Evaluated == evOut.c = "normal"
\* The verdicts of the evaluated day.
Verdicts == evOut.value[1].rules
VerdictKeys == [i \in DOMAIN Verdicts |-> Verdicts[i].key]

NineKeys ==
    <<"max_risk_percent", "no_overtrade", "stop_loss_required", "max_sl_percent",
      "max_daily_dd", "session_allowed", "max_sl_tp_change_percent",
      "rr_target_declared", "journal_before_new_trade">>

GoalRequired == evSettings.requireFirstTradeGoal = Bool(TRUE)
JournalRequired == evSettings.requireJournalBeforeNewTrade = Bool(TRUE)
HasPlan == evDate \in DOMAIN evPlans
EntryCount == IF evDate \in DOMAIN evJournals THEN Len(evJournals[evDate]) ELSE 0

\* C1: the verdict sequence of an evaluated day is exactly the nine keys, in
\* this order, whatever the settings, telemetry, plan and journal entries.
C1_NineKeysInOrder ==
    evOut # NotRun => Evaluated /\ Len(evOut.value) = 1 /\ VerdictKeys = NineKeys

\* An evaluation with a failing telemetry verdict, no plan and no journal entry.
C1_Witness ==
    Evaluated /\ ~HasPlan /\ EntryCount = 0 /\ ~Verdicts[1].pass /\ Verdicts[3].pass

\* C2: verdicts 1-5 pass iff the measured value is at most its threshold (iff
\* allHaveSL for verdict 3), a value equal to its threshold passes, and the
\* level is info on a pass and error (warning for no_overtrade) on a failure.
C2_TelemetryVerdicts ==
    Evaluated =>
        LET AtMost(a, b) == a.t = "num" /\ b.t = "num" /\ a.n <= b.n
            Is(i, key, ok, failLevel) ==
                /\ Verdicts[i].key = key
                /\ Verdicts[i].pass = ok
                /\ Verdicts[i].level = IF ok THEN "info" ELSE failLevel
        IN  /\ Is(1, "max_risk_percent",
                  AtMost(evTel.riskPerTrade, evSettings.maxRiskPercent), "error")
            /\ Is(2, "no_overtrade", AtMost(evTel.trades, evSettings.maxPositions), "warning")
            /\ Is(3, "stop_loss_required", evTel.allHaveSL, "error")
            /\ Is(4, "max_sl_percent",
                  AtMost(evTel.riskPerTrade, evSettings.maxSLPercent), "error")
            /\ Is(5, "max_daily_dd", AtMost(evTel.dd, evSettings.maxDailyDDPercent), "error")

\* An evaluation where risk and trade count equal their thresholds and pass,
\* and the drawdown exceeds its threshold and fails.
C2_Witness ==
    /\ Evaluated
    /\ evTel.riskPerTrade = evSettings.maxRiskPercent /\ Verdicts[1].pass
    /\ evTel.trades = evSettings.maxPositions /\ Verdicts[2].pass
    /\ evTel.dd.n > evSettings.maxDailyDDPercent.n /\ ~Verdicts[5].pass

\* The plan meets every condition of the rr_target_declared verdict.
PlanComplete(plan) ==
    /\ plan.o.rrTarget.n >= evSettings.minRRAllowed.n
    /\ plan.o.mood.s # <<>>
    /\ plan.o.plannedTrades.n > 0
    /\ Len(plan.o.plannedWindows.l) >= 1
    /\ plan.o.expectedHighTime.t = "str" /\ plan.o.expectedHighTime.s # <<>>
    /\ plan.o.expectedLowTime.t = "str" /\ plan.o.expectedLowTime.s # <<>>

\* C3: rr_target_declared passes iff requireFirstTradeGoal is unset, or a plan
\* exists for the day's date that meets every condition.
C3_RRTargetPass ==
    Evaluated =>
        (Verdicts[8].pass <=> (~GoalRequired \/ (HasPlan /\ PlanComplete(evPlans[evDate]))))

\* A required plan that meets every condition, its rrTarget equal to the
\* minimum allowed, and passes.
C3_Witness ==
    /\ Evaluated /\ GoalRequired /\ HasPlan
    /\ evPlans[evDate].o.rrTarget = evSettings.minRRAllowed
    /\ PlanComplete(evPlans[evDate])
    /\ Verdicts[8].pass

\* C4: rr_target_declared has level info when it passes and warning when it
\* fails, whether requireFirstTradeGoal is set or not.
C4_RRLevelFollowsPass ==
    Evaluated => Verdicts[8].level = IF Verdicts[8].pass THEN "info" ELSE "warning"

\* C5: journal_before_new_trade passes iff the flag is unset or the date has a
\* journal entry; its value is the number of entries of the date; its level
\* is warning exactly when it fails.
C5_JournalVerdict ==
    Evaluated =>
        /\ Verdicts[9].pass <=> (~JournalRequired \/ EntryCount >= 1)
        /\ Verdicts[9].value = Num(10 * EntryCount)
        /\ Verdicts[9].level = "warning" <=> ~Verdicts[9].pass

\* Journaling required and no entry for the date, though the day before has
\* one: the verdict fails with value 0.
C5_Witness ==
    /\ Evaluated /\ JournalRequired /\ EntryCount = 0
    /\ (evDate - 1) \in DOMAIN evJournals
    /\ ~Verdicts[9].pass /\ Verdicts[9].value = Num(0)

\* C6: a missing plan or missing journal entries never raise: the evaluation
\* completes with all nine verdicts, and the affected verdict fails with a
\* note that says what is missing (and level warning for the plan).
C6_MissingContextFails ==
    evOut # NotRun =>
        /\ Evaluated
        /\ Len(Verdicts) = 9
        /\ (GoalRequired /\ ~HasPlan) =>
              /\ ~Verdicts[8].pass
              /\ Verdicts[8].level = "warning"
              /\ Verdicts[8].notes = "RR target/plan not declared"
        /\ (JournalRequired /\ EntryCount = 0) =>
              /\ ~Verdicts[9].pass
              /\ Verdicts[9].notes = "No pre-entry journal yet"

\* Plan and journal both required and both missing for the date, while the
\* day before has a plan.
C6_Witness ==
    /\ Evaluated /\ GoalRequired /\ ~HasPlan /\ JournalRequired /\ EntryCount = 0
    /\ (evDate - 1) \in DOMAIN evPlans
    /\ ~Verdicts[8].pass /\ ~Verdicts[9].pass

\* A verdict field that is a percent string, and one that is a raw number.
IsPercentString(v) == v.t = "str" /\ v.s # <<>> /\ v.s[Len(v.s)] = "%"
IsRawNumber(v) == v.t \in {"num", "nan"}

\* C21: a verdict that carries both a value and a limit carries them in one
\* unit: both percent strings, or both raw numbers.
C21_ValueAndLimitSameUnit ==
    Evaluated =>
        \A i \in DOMAIN Verdicts :
            (NotNullish(Verdicts[i].value) /\ NotNullish(Verdicts[i].limit)) =>
                \/ IsPercentString(Verdicts[i].value) /\ IsPercentString(Verdicts[i].limit)
                \/ IsRawNumber(Verdicts[i].value) /\ IsRawNumber(Verdicts[i].limit)

\* The units of the telemetry verdicts and of the journal verdict.
UnitsOfTelemetryVerdicts ==
    Evaluated =>
        /\ \A i \in {1, 4, 5} :
              IsPercentString(Verdicts[i].value) /\ IsPercentString(Verdicts[i].limit)
        /\ \A i \in {2, 9} : IsRawNumber(Verdicts[i].value) /\ IsRawNumber(Verdicts[i].limit)
        /\ Verdicts[2].value = evTel.trades /\ Verdicts[2].limit = evSettings.maxPositions

\* The notes of the default sessions.
DefaultSessionsNotes ==
    "London AM 07:00-11:00 (Asia/Ho_Chi_Minh); NY 19:00-23:00 (Asia/Ho_Chi_Minh)"

\* C22: session_allowed always passes, its notes listing the sessions or
\* saying 'No sessions set' for an empty list; max_sl_tp_change_percent is
\* always a passing verdict at level warning whose note says that a realtime
\* check is required.
C22_PlaceholderVerdicts ==
    Evaluated =>
        /\ Verdicts[6].key = "session_allowed"
        /\ Verdicts[6].pass
        /\ evSettings.allowedSessions = List(<<>>) => Verdicts[6].notes = "No sessions set"
        /\ evSettings.allowedSessions = DefaultSettings.allowedSessions
              => Verdicts[6].notes = DefaultSessionsNotes
        /\ Verdicts[7].key = "max_sl_tp_change_percent"
        /\ Verdicts[7].pass
        /\ Verdicts[7].level = "warning"
        /\ Verdicts[7].notes = "Realtime check required"

\* An evaluation without sessions whose telemetry verdicts fail.
C22_Witness ==
    /\ Evaluated
    /\ evSettings.allowedSessions = List(<<>>)
    /\ ~Verdicts[1].pass /\ ~Verdicts[3].pass
    /\ Verdicts[6].pass /\ Verdicts[6].notes = "No sessions set"
    /\ Verdicts[7].level = "warning"

----------------------------------------------------------------------------
\* The plans the backend delivers
\*
\* An ISO datetime string is written [t |-> "date", d |-> day]: only the
\* date before its 'T' is read.

DateTime(day) == [t |-> "date", d |-> day]

\* A record without one of its fields.
Without(rec, f) == [k \in DOMAIN rec \ {f} |-> rec[k]]

\* loadPlansFromBackend: each item of result.data mapped to a plan from its
\* condition, a field the condition lacks being undefined; [] when the
\* response is not ok or the mapping throws (an item without condition).
loadPlansFromBackend(data, ok) ==
    IF ~ok \/ \E i \in DOMAIN data : ~NotNullish(Get(data[i], "condition")) THEN <<>>
    ELSE [i \in DOMAIN data |->
            LET c == Get(data[i], "condition")
            IN  Obj([mood |-> Get(c, "mood"),
                     plannedTrades |-> Get(c, "plannedTrades"),
                     plannedWindows |-> Get(c, "plannedWindows"),
                     expectedHighTime |-> Get(c, "expectedHighTime"),
                     expectedLowTime |-> Get(c, "expectedLowTime"),
                     rrTarget |-> Get(c, "rrTarget"),
                     notes |-> Get(c, "notes"),
                     submittedAt |-> Get(c, "submittedAt")])]

\* `x ? x.split('T')[0] : focusDate` of a datetime.
DateOr(stamp, focus) == IF stamp.t = "date" THEN stamp.d ELSE focus

\* plansRecord: the plans by the date of their submittedAt, a later plan of the
\* array replacing an earlier one of the same date.
RECURSIVE plansRecord(_, _)
plansRecord(planData, focus) ==
    IF planData = <<>> THEN <<>>
    ELSE LET last == planData[Len(planData)]
             date == DateOr(Get(last, "submittedAt"), focus)
         IN  (date :> last) @@ plansRecord(SubSeq(planData, 1, Len(planData) - 1), focus)

\* The conditions of stored plans: a plan as savePlanToBackend sends it, with
\* each condition of the rr_target_declared verdict met or not, and the
\* windows and the expected times possibly absent from the payload.
StoredConditions ==
    {LET full == [mood |-> mood, plannedTrades |-> n, plannedWindows |-> List(<<WindowA>>),
                  expectedHighTime |-> TimeTen, expectedLowTime |-> TimeNine,
                  rrTarget |-> rr, notes |-> Str(<<>>), submittedAt |-> DateTime(Today)]
         a == IF windows = "absent" THEN Without(full, "plannedWindows")
              ELSE IF windows = "empty" THEN [full EXCEPT !.plannedWindows = List(<<>>)]
              ELSE full
         b == IF high THEN a ELSE Without(a, "expectedHighTime")
     IN  IF low THEN b ELSE Without(b, "expectedLowTime") :
        mood \in {Str(<<>>), MoodCalm},
        n \in {Num(0), Num(10)},
        rr \in {Num(10), Num(20)},
        windows \in {"absent", "empty", "one"},
        high \in BOOLEAN,
        low \in BOOLEAN}

StoredItem(condition) == Obj([id |-> Num(10), condition |-> Obj(condition)])

\* The evaluated day has the plan the backend delivered for it.
InitEvalStored ==
    /\ ParseIdle
    /\ SaveIdle
    /\ SumIdle
    /\ CsvIdle
    /\ CompIdle
    /\ FormIdle
    /\ NoteIdle
    /\ evDate = Today
    /\ evOut = NotRun
    /\ evTel = TelemetryOf(Num(20), Num(20), Num(10), TRUE)
    /\ evSettings \in ExtrasSettings
    /\ \E c \in StoredConditions :
          evPlans = plansRecord(loadPlansFromBackend(<<StoredItem(c)>>, TRUE), Today)
    /\ evJournals = <<>>

SpecEvalStored == InitEvalStored /\ [][NextEval]_vars

\* The day's plan lacks its windows or one of its expected times.
PlanLacksField ==
    /\ evDate \in DOMAIN evPlans
    /\ \/ ~NotNullish(Get(evPlans[evDate], "plannedWindows"))
       \/ ~NotNullish(Get(evPlans[evDate], "expectedHighTime"))
       \/ ~NotNullish(Get(evPlans[evDate], "expectedLowTime"))

\* C25: the evaluation of a day ends normally with its nine verdicts for every
\* plan the backend delivers; a plan that lacks its windows or an expected
\* time gives a failing rr_target_declared verdict (when the goal is required).
C25_EvaluationNeverRaises ==
    evOut # NotRun =>
        /\ Evaluated
        /\ VerdictKeys = NineKeys
        /\ (PlanLacksField /\ GoalRequired) => ~Verdicts[8].pass

\* The same for the plans that have their windows.
EvaluationOfPlansWithWindows ==
    (evOut # NotRun /\ evDate \in DOMAIN evPlans
        /\ NotNullish(Get(evPlans[evDate], "plannedWindows"))) =>
        /\ Evaluated
        /\ VerdictKeys = NineKeys
        /\ (PlanLacksField /\ GoalRequired) => ~Verdicts[8].pass

----------------------------------------------------------------------------
\* parseRulesToSettings on drawn inputs

MaxRules == 2

NameMaxRisk == <<"M", "a", "x", " ", "R", "i", "s", "k", " ", "5", "%">>
NameMaxRiskUpper == <<"M", "A", "X", " ", "R", "I", "S", "K">>
NameMaxSL == <<"m", "a", "x", " ", "s", "l", " ", "2", "%">>
NameChange ==
    <<"M", "a", "x", " ", "S", "L", "/", "T", "P", " ", "C", "h", "a", "n", "g", "e", " ",
      "1", "0", "%">>
NameMaxDailyDD == <<"M", "a", "x", " ", "D", "a", "i", "l", "y", " ", "D", "D", " ", "5", "%">>
NameJournal ==
    <<"P", "r", "e", "-", "e", "n", "t", "r", "y", " ", "J", "o", "u", "r", "n", "a", "l">>
NameOther == <<"O", "t", "h", "e", "r">>
CharsAbc == <<"a", "b", "c">>
CharsSeven == <<"7">>

\* The records a drawn collection is made of: well-typed payloads, payloads
\* with a null or ill-typed field, a record without a condition, a record
\* whose condition is no object, and a record without a name.
RulePool ==
    <<APIRule(1, Str(NameMaxRisk), Obj([max_risk_percent |-> Num(30)])),
      APIRule(2, Str(NameMaxRiskUpper), Obj([max_risk_percent |-> Str(CharsAbc)])),
      APIRule(3, Str(NeedleNoOvertrade),
              Obj([max_positions |-> Num(30), max_lots_per_trade |-> Str(CharsSeven)])),
      APIRule(4, Str(NameMaxSL), Obj([max_sl_percent |-> Num(10), symbol |-> Str(CharsAbc)])),
      APIRule(5, Str(NameChange), Obj([max_sl_tp_change_percent |-> Num(200)])),
      APIRule(6, Str(NameMaxDailyDD), Obj([max_dd_percent |-> Null])),
      APIRule(7, Str(NeedleRRTarget), Obj([min_rr_allowed |-> Num(20)])),
      APIRule(8, Str(NeedleSessions),
              Obj([allowed_sessions |-> List(<<>>), violate_outside_session |-> Bool(FALSE)])),
      APIRule(9, Str(NeedleSessions), Obj([allowed_sessions |-> Str(CharsAbc)])),
      APIRule(10, Str(NeedleFirstTrade), Obj([require_first_trade_goal |-> Bool(FALSE)])),
      APIRule(11, Str(NameJournal), Obj([require_journal_before_new_trade |-> Num(0)])),
      APIRule(12, Undefined, Obj([max_risk_percent |-> Num(10)])),
      APIRule(13, Str(NameOther), Undefined),
      APIRule(14, Str(NameMaxDailyDD), Str(CharsAbc)),
      APIRule(15, Str(NameMaxDailyDD), Obj([max_dd_percent |-> Num(30)]))>>

\* Settings that differ from the defaults, and from what the pool's payloads
\* give, in every field.
EditedSettings ==
    [maxRiskPercent |-> Num(15),
     maxPositions |-> Num(20),
     maxLotsPerTrade |-> Num(5),
     maxSLPercent |-> Num(25),
     maxDailyDDPercent |-> Num(40),
     minRRAllowed |-> Num(30),
     allowedSessions |-> List(<<Session("08:00", "12:00", "UTC", "")>>),
     violateOutsideSession |-> Bool(FALSE),
     maxSLTPChangePercent |-> Num(50),
     requireFirstTradeGoal |-> Bool(FALSE),
     requireJournalBeforeNewTrade |-> Bool(FALSE)]

\* Sequences over the pool of length at most n.
RECURSIVE RuleSeqs(_)
RuleSeqs(n) ==
    IF n = 0 THEN {<<>>}
    ELSE LET shorter == RuleSeqs(n - 1)
         IN  shorter \cup
             {Append(q, RulePool[i]) : q \in {x \in shorter : Len(x) = n - 1},
                                       i \in DOMAIN RulePool}

InitParse ==
    /\ EvalIdle
    /\ SaveIdle
    /\ SumIdle
    /\ CsvIdle
    /\ CompIdle
    /\ FormIdle
    /\ NoteIdle
    /\ prRules \in RuleSeqs(MaxRules)
    /\ prBase \in {DefaultSettings, EditedSettings}
    /\ prBase0 = prBase
    /\ prOut = NotRun

\* The call parseRulesToSettings(prRules, prBase).
Parse ==
    /\ prOut = NotRun
    /\ prOut' = parseRulesToSettings(prRules, prBase)
    /\ UNCHANGED <<prRules, prBase, prBase0>>
    /\ UNCHANGED <<evalVars, saveVars, sumVars, csvVars, compVars, formVars, noteVars>>

NextParse == Parse

SpecParse == InitParse /\ [][NextParse]_vars

----------------------------------------------------------------------------
\* Claims about the forward mapping (under SpecParse)

\* The category-name table: the needle a settings field's record is found by.
FieldNeedle(f) ==
    CASE f = "maxRiskPercent" -> NeedleMaxRisk
      [] f \in {"maxPositions", "maxLotsPerTrade"} -> NeedleNoOvertrade
      [] f = "maxSLPercent" -> NeedleMaxSL
      [] f = "maxDailyDDPercent" -> NeedleMaxDailyDD
      [] f = "minRRAllowed" -> NeedleRRTarget
      [] f \in {"allowedSessions", "violateOutsideSession"} -> NeedleSessions
      [] f = "requireFirstTradeGoal" -> NeedleFirstTrade
      [] f = "maxSLTPChangePercent" -> NeedleChange
      [] f = "requireJournalBeforeNewTrade" -> <<"j", "o", "u", "r", "n", "a", "l">>

\* The payload field a settings field is read from.
FieldPayload(f) ==
    CASE f = "maxRiskPercent" -> "max_risk_percent"
      [] f = "maxPositions" -> "max_positions"
      [] f = "maxLotsPerTrade" -> "max_lots_per_trade"
      [] f = "maxSLPercent" -> "max_sl_percent"
      [] f = "maxDailyDDPercent" -> "max_dd_percent"
      [] f = "minRRAllowed" -> "min_rr_allowed"
      [] f = "allowedSessions" -> "allowed_sessions"
      [] f = "violateOutsideSession" -> "violate_outside_session"
      [] f = "requireFirstTradeGoal" -> "require_first_trade_goal"
      [] f = "maxSLTPChangePercent" -> "max_sl_tp_change_percent"
      [] f = "requireJournalBeforeNewTrade" -> "require_journal_before_new_trade"

NumericFields ==
    {"maxRiskPercent", "maxPositions", "maxLotsPerTrade", "maxSLPercent",
     "maxDailyDDPercent", "minRRAllowed", "maxSLTPChangePercent"}

\* The payload value the mapping reads for field f: that of the first record
\* whose name contains the field's needle, undefined when there is none.
MatchedPayload(rules, f) ==
    LET hit == {i \in DOMAIN rules :
                   /\ rules[i].name.t = "str"
                   /\ includes(toLowerCase(rules[i].name.s), toLowerCase(FieldNeedle(f)))}
    IN  IF hit = {} THEN Undefined
        ELSE Get(rules[CHOOSE k \in hit : \A m \in hit : k <= m].condition, FieldPayload(f))

\* A payload value that is present and ill-typed for field f: for a numeric
\* field a value that is no number and has no numeric reading, for the session
\* list a value that is no list.
Malformed(f, v) ==
    /\ NotNullish(v)
    /\ \/ f \in NumericFields /\ v.t # "num" /\ Number(v) = NaN
       \/ f = "allowedSessions" /\ v.t # "list"

\* C8: when a matched record's payload field is present but not well-typed,
\* the settings field of the result equals its value in base.
C8_MalformedFieldKeepsBase ==
    prOut.c = "normal" =>
        \A f \in NumericFields \cup {"allowedSessions"} :
            Malformed(f, MatchedPayload(prRules, f)) => prOut.value[f] = prBase0[f]

\* C9: the result of parseRulesToSettings differs from base only in fields
\* whose category record is present in the collection with a non-null payload
\* field; base is not mutated; for the empty collection the result is base.
C9_MergeOntoBase ==
    /\ prBase = prBase0
    /\ prOut.c = "normal" =>
          \A f \in SettingsFields :
              prOut.value[f] # prBase0[f] =>
                  \E i \in DOMAIN prRules :
                      /\ prRules[i].name.t = "str"
                      /\ includes(toLowerCase(prRules[i].name.s), toLowerCase(FieldNeedle(f)))
                      /\ NotNullish(Get(prRules[i].condition, FieldPayload(f)))
    /\ (prRules = <<>> /\ prOut # NotRun) => prOut = Normal(prBase0)

\* A call that overwrote one field and kept another whose record is present
\* with a null payload field.
C9_Witness ==
    /\ prOut.c = "normal"
    /\ prOut.value.maxRiskPercent # prBase0.maxRiskPercent
    /\ \E i \in DOMAIN prRules : prRules[i] = RulePool[6]
    /\ prOut.value.maxDailyDDPercent = prBase0.maxDailyDDPercent

\* C10: parseRulesToSettings returns a settings value without raising, for
\* every record collection.
C10_ParseNeverRaises == prOut.c # "throw"

\* The first record of the collection whose name contains `has` and, when
\* `hasNot` is not empty, does not contain `hasNot`; undefined when none.
FirstNamed(rules, has, hasNot) ==
    LET hit == {i \in DOMAIN rules :
                   /\ rules[i].name.t = "str"
                   /\ includes(toLowerCase(rules[i].name.s), toLowerCase(has))
                   /\ hasNot = <<>> \/ ~includes(toLowerCase(rules[i].name.s), hasNot)}
    IN  IF hit = {} THEN Undefined
        ELSE rules[CHOOSE k \in hit : \A m \in hit : k <= m]

\* C11: the 'max sl' category is the record whose name contains 'max sl' and
\* not 'change'.  For a collection with such a record carrying a numeric
\* max_sl_percent = n and a 'max sl/tp change' record carrying a numeric
\* max_sl_tp_change_percent = m, parseRulesToSettings yields maxSLPercent = n
\* and maxSLTPChangePercent = m, whatever the order of the records.
C11_MaxSLExcludesChange ==
    LET sl == FirstNamed(prRules, NeedleMaxSL, WordChange)
        change == FirstNamed(prRules, NeedleChange, <<>>)
        n == Get(ConditionOf(sl), "max_sl_percent")
        m == Get(ConditionOf(change), "max_sl_tp_change_percent")
    IN  (prOut.c = "normal" /\ sl # Undefined /\ change # Undefined
            /\ n.t = "num" /\ m.t = "num")
        => prOut.value.maxSLPercent = n /\ prOut.value.maxSLTPChangePercent = m

----------------------------------------------------------------------------
\* saveSettingsToBackend on drawn inputs

\* Settings as the form and the forward mapping leave them; the last holds
\* the NaN that Number() gives for a payload with no numeric reading.
SavedSettings ==
    {DefaultSettings, EditedSettings, [EditedSettings EXCEPT !.maxRiskPercent = NaN]}

InitSave ==
    /\ ParseIdle
    /\ EvalIdle
    /\ SumIdle
    /\ CsvIdle
    /\ CompIdle
    /\ FormIdle
    /\ NoteIdle
    /\ svSettings \in SavedSettings
    /\ svExisting \in {Null} \cup {List(q) : q \in RuleSeqs(MaxRules)}
    /\ svOut = NotRun

\* The call saveSettingsToBackend(svSettings, svExisting), the bulk write
\* answered with an ok status or another.
Save ==
    /\ svOut = NotRun
    /\ \E ok \in BOOLEAN : svOut' = saveSettingsToBackend(svSettings, svExisting, ok)
    /\ UNCHANGED <<svSettings, svExisting>>
    /\ UNCHANGED <<parseVars, evalVars, sumVars, csvVars, compVars, formVars, noteVars>>

NextSave == Save

SpecSave == InitSave /\ [][NextSave]_vars

----------------------------------------------------------------------------
\* Claims about the reverse mapping (under SpecSave)

\* A bulk write has been issued.
Posted == svOut # NotRun /\ svOut.posted
Loaded == svExisting.l
Sent == svOut.body.rules

\* The record's name puts it in the category of settings field f.
InCategory(rule, f) ==
    /\ rule.name.t = "str"
    /\ includes(toLowerCase(rule.name.s), toLowerCase(FieldNeedle(f)))
    /\ f = "maxSLPercent" => ~includes(toLowerCase(rule.name.s), WordChange)

\* The settings fields whose category's record gets a new name.
RenamedFields ==
    {"maxRiskPercent", "maxSLPercent", "maxDailyDDPercent", "maxSLTPChangePercent"}

\* C12: for each loaded record whose name matches a known category (the
\* journaling category included), the record sent in the bulk write carries
\* in its condition payload the current settings value(s) of that category,
\* and its regenerated name is the template filled with the new value.
C12_ReversePatchesEveryCategory ==
    Posted =>
        \A i \in DOMAIN Loaded : \A f \in SettingsFields :
            InCategory(Loaded[i], f) =>
                /\ Get(ConditionOf(Sent[i]), FieldPayload(f)) = JsonValue(svSettings[f])
                /\ f \in RenamedFields =>
                      Sent[i].name = PercentName(FieldNeedle(f), svSettings[f])

\* The properties a record has, an undefined one counting as absent.
PresentFields(r) == {k \in DOMAIN r : k \in {"id", "description"} \/ r[k] # Undefined}

\* The payload fields of a record whose condition is an object.
PayloadOf(rule) ==
    IF ConditionOf(rule).t = "obj" THEN ConditionOf(rule).o ELSE <<>>

C13_Frame ==
    Posted =>
        /\ Len(Sent) = Len(Loaded)
        /\ \A i \in DOMAIN Loaded :
              LET old == Loaded[i]
                  new == Sent[i]
                  owned == {FieldPayload(f) : f \in {g \in SettingsFields : InCategory(old, g)}}
              IN  /\ new.id = old.id
                  /\ owned = {} =>
                        /\ PresentFields(new) = PresentFields(old)
                        /\ \A k \in PresentFields(old) : new[k] = old[k]
                  /\ \A k \in DOMAIN PayloadOf(old) \ owned :
                        Get(ConditionOf(new), k) = PayloadOf(old)[k]

\* C13: the collection sent in the bulk write has the length, the order and
\* the ids of the loaded collection; a record matching no category is sent
\* as it was loaded; a matched record keeps every payload field that is not a
\* threshold field of its category; the loaded collection is not changed.
C13_ReverseKeepsTheRest == []C13_Frame /\ [][svExisting' = svExisting]_vars

\* A bulk write of a record of no category and of a matched record that has
\* a payload field of its own.
C13_Witness ==
    /\ Posted
    /\ Len(Loaded) = 2
    /\ Loaded[1] = RulePool[13]
    /\ Loaded[2] = RulePool[4]
    /\ svSettings = EditedSettings
    /\ Get(ConditionOf(Sent[2]), "max_sl_percent") = EditedSettings.maxSLPercent

----------------------------------------------------------------------------
\* The settings saved and loaded again

\* One record per known category, with payload values no drawn settings hold.
CategoryRules ==
    <<APIRule(1, Str(NameMaxRisk), Obj([max_risk_percent |-> Num(30)])),
      APIRule(2, Str(NeedleNoOvertrade),
              Obj([max_positions |-> Num(30), max_lots_per_trade |-> Num(30)])),
      APIRule(3, Str(NameMaxSL), Obj([max_sl_percent |-> Num(10)])),
      APIRule(4, Str(NameChange), Obj([max_sl_tp_change_percent |-> Num(200)])),
      APIRule(5, Str(NameMaxDailyDD), Obj([max_dd_percent |-> Num(30)])),
      APIRule(6, Str(NeedleRRTarget), Obj([min_rr_allowed |-> Num(10)])),
      APIRule(7, Str(NeedleSessions),
              Obj([allowed_sessions |-> List(<<>>), violate_outside_session |-> Bool(TRUE)])),
      APIRule(8, Str(NeedleFirstTrade), Obj([require_first_trade_goal |-> Bool(TRUE)])),
      APIRule(9, Str(NameJournal), Obj([require_journal_before_new_trade |-> Num(0)]))>>

Rotated(q, k) == [i \in DOMAIN q |-> q[((i + k - 1) % Len(q)) + 1]]
Reversed(q) == [i \in DOMAIN q |-> q[Len(q) + 1 - i]]

\* Orderings of the collection: the rotations of the records in the order
\* above and in the reverse order.
CategoryOrderings ==
    {Rotated(CategoryRules, k) : k \in 0..(Len(CategoryRules) - 1)}
    \cup {Rotated(Reversed(CategoryRules), k) : k \in 0..(Len(CategoryRules) - 1)}

InitRoundTrip ==
    /\ EvalIdle
    /\ SumIdle
    /\ CsvIdle
    /\ CompIdle
    /\ FormIdle
    /\ NoteIdle
    /\ svSettings \in {DefaultSettings, EditedSettings}
    /\ svExisting \in {List(q) : q \in CategoryOrderings}
    /\ svOut = NotRun
    /\ prRules = <<>>
    /\ prBase \in {DefaultSettings, EditedSettings}
    /\ prBase0 = prBase
    /\ prOut = NotRun

\* handleLoadRules after a save that the backend accepted: the backend returns
\* the records of the bulk write, and parseRulesToSettings maps them onto prBase.
LoadSaved ==
    /\ svOut # NotRun
    /\ svOut.c = "normal"
    /\ prOut = NotRun
    /\ prRules' = svOut.body.rules
    /\ prOut' = parseRulesToSettings(svOut.body.rules, prBase)
    /\ UNCHANGED <<prBase, prBase0>>
    /\ UNCHANGED <<evalVars, saveVars, sumVars, csvVars, compVars, formVars, noteVars>>

NextRoundTrip == Save \/ LoadSaved

SpecRoundTrip == InitRoundTrip /\ [][NextRoundTrip]_vars

\* C26: the settings saved onto a collection with one record per category are
\* the settings loaded from the collection saved, in all eleven fields,
\* whatever the base and the order of the records.
C26_SettingsRoundTrip ==
    prOut # NotRun => prOut.c = "normal" /\ prOut.value = svSettings

\* The 'max sl' record comes before the 'max sl/tp change' record.
SLBeforeChange ==
    \E i, j \in DOMAIN svExisting.l :
        /\ i < j
        /\ svExisting.l[i].name = Str(NameMaxSL)
        /\ svExisting.l[j].name = Str(NameChange)

\* The round trip of the fields other than requireJournalBeforeNewTrade, for
\* the orderings with the 'max sl' record first of the two.
RoundTripOfTheOtherFields ==
    (prOut # NotRun /\ SLBeforeChange) =>
        /\ prOut.c = "normal"
        /\ \A f \in DOMAIN svSettings \ {"requireJournalBeforeNewTrade"} :
              prOut.value[f] = svSettings[f]

----------------------------------------------------------------------------
\* The aggregates over the evaluated days: the day card's compliance, the
\* range summary and the export rows
\*
\* A quotient of two integers is kept exact, as p/q in lowest terms with
\* q > 0; the rounding of the floating-point quotient is not modelled.

RECURSIVE Gcd(_, _)
Gcd(a, b) == IF b = 0 THEN a ELSE Gcd(b, a % b)

Ratio(p, q) == LET g == Gcd(p, q) IN [t |-> "ratio", p |-> p \div g, q |-> q \div g]

Infinity == [t |-> "inf"]

\* a / b of two integers a >= 0, b >= 0: 0 / 0 is NaN, a / 0 is Infinity.
Divide(a, b) ==
    IF b = 0 THEN (IF a = 0 THEN NaN ELSE Infinity) ELSE Ratio(a, b)

\* x + y of two quotients.
Add(x, y) ==
    IF x = NaN \/ y = NaN THEN NaN
    ELSE IF x = Infinity \/ y = Infinity THEN Infinity
    ELSE Ratio(x.p * y.q + y.p * x.q, x.q * y.q)

\* x / n of a quotient and an array length n >= 1.
DivideBy(x, n) ==
    IF x \in {NaN, Infinity} THEN x ELSE Ratio(x.p, x.q * n)

\* Math.round(100 * x) of a quotient x >= 0, as a JS number.
RoundPercent(x) ==
    IF x \in {NaN, Infinity} THEN x
    ELSE Num(10 * ((200 * x.p + x.q) \div (2 * x.q)))

\* pct(n): `${Math.round(n * 100)}%`
pct(x) ==
    LET r == RoundPercent(x)
    IN  IF r = Infinity THEN "Infinity%" ELSE NumberText(r) \o "%"

\* day.rules.filter(r => r.pass).length
passed(day) == Len(SelectSeq(day.rules, LAMBDA r : r.pass))

\* passed / day.rules.length
rate(day) == Divide(passed(day), Len(day.rules))

\* What DayChecklistCard shows of a day: the compliance and "p/n rules passed".
DayChecklistCard(day) ==
    [passed |-> passed(day),
     total |-> Len(day.rules),
     rate |-> rate(day),
     compliance |-> pct(rate(day))]

\* listWithExtras.map(d => passed / d.rules.length)
rates(days) == [i \in DOMAIN days |-> rate(days[i])]

\* rates.reduce((a, b) => a + b, 0)
RECURSIVE SumOf(_)
SumOf(qs) == IF qs = <<>> THEN Ratio(0, 1) ELSE Add(SumOf(SubSeq(qs, 1, Len(qs) - 1)), qs[Len(qs)])

RECURSIVE PassedIn(_)
PassedIn(days) == IF days = <<>> THEN 0 ELSE passed(Head(days)) + PassedIn(Tail(days))

RECURSIVE VerdictsIn(_)
VerdictsIn(days) == IF days = <<>> THEN 0 ELSE Len(Head(days).rules) + VerdictsIn(Tail(days))

\* The pooled ratio: all passed verdicts over all verdicts.
avg_Pooled(days) == Divide(PassedIn(days), VerdictsIn(days))

\* avg: the sum of the days' rates over their number.
avg(days) == DivideBy(SumOf(rates(days)), Len(days))

\* summary: the number of days and their average pass rate.
summary(days) ==
    IF Len(days) = 0 THEN [passRate |-> Ratio(0, 1), days |-> 0]
    ELSE [passRate |-> avg(days), days |-> Len(days)]

\* The header's "N days, avg pass rate P%".
SummaryText(s) ==
    NumberText(Num(10 * s.days)) \o " days, avg pass rate " \o pct(s.passRate)

\* exportRows: one row per day.
exportRows(days) ==
    [i \in DOMAIN days |->
        [date |-> days[i].date,
         trader |-> days[i].trader,
         trades |-> days[i].tradesCount,
         ddPercent |-> days[i].ddPercent,
         passRate |-> RoundPercent(rate(days[i]))]]

----------------------------------------------------------------------------
\* The aggregates on drawn days

MaxDays == 2
MaxVerdicts == 3

\* A verdict that passed or failed.
Verdict(ok) ==
    RuleCheck("stop_loss_required", "Stop Loss Required",
              "Stop loss must be set for every trade",
              ok, LevelOf(ok, "error"), Undefined, Undefined,
              IF ok THEN "All trades have SL" ELSE "Some trades missing SL")

\* Verdict sequences of up to MaxVerdicts verdicts, the empty one included.
VerdictSeqs ==
    UNION {{[i \in 1..n |-> Verdict(f[i])] : f \in [1..n -> BOOLEAN]} : n \in 0..MaxVerdicts}

\* Today's day of the default trader, carrying the given verdicts.
DayWith(verdicts) ==
    [buildFakeDay(Today, DefaultTrader, DefaultSettings).value EXCEPT !.rules = verdicts]

DaySeqs ==
    UNION {[1..n -> {DayWith(v) : v \in VerdictSeqs}] : n \in 0..MaxDays}

InitSummary ==
    /\ ParseIdle
    /\ EvalIdle
    /\ SaveIdle
    /\ CsvIdle
    /\ CompIdle
    /\ FormIdle
    /\ NoteIdle
    /\ smDays \in DaySeqs
    /\ smOut = NotRun

\* One render: every day's card, the summary with its text, the export rows.
Summarise ==
    /\ smOut = NotRun
    /\ smOut' = Normal([cards |-> [i \in DOMAIN smDays |-> DayChecklistCard(smDays[i])],
                        summary |-> summary(smDays),
                        text |-> SummaryText(summary(smDays)),
                        rows |-> exportRows(smDays)])
    /\ UNCHANGED <<smDays, parseVars, evalVars, saveVars, csvVars, compVars, formVars, noteVars>>

NextSummary == Summarise

SpecSummary == InitSummary /\ [][NextSummary]_vars

Summarised == smOut.c = "normal"

AllJudged == \A i \in DOMAIN smDays : smDays[i].rules # <<>>

\* The exact mean of the days' passed/total is
\* ScaledPassed / (TotalsProduct * number of days).
RECURSIVE TotalsProduct(_)
TotalsProduct(days) ==
    IF days = <<>> THEN 1 ELSE Len(Head(days).rules) * TotalsProduct(Tail(days))

RECURSIVE ScaledPassed(_, _)
ScaledPassed(days, den) ==
    IF days = <<>> THEN 0
    ELSE passed(Head(days)) * (den \div Len(Head(days).rules))
            + ScaledPassed(Tail(days), den)

\* x is the mean of the days' rates, and lies between 0 and 1.
IsMeanRate(x, days) ==
    LET den == TotalsProduct(days)
    IN  /\ x.t = "ratio"
        /\ x.p * den * Len(days) = ScaledPassed(days, den) * x.q
        /\ 0 <= x.p /\ x.p <= x.q

\* C16: the summary counts the days of the sequence; for days that each carry
\* a verdict its pass rate is the arithmetic mean of the days' passed/total,
\* between 0 and 1; no day gives (0, 0), one day gives that day's own rate
\* with count 1.
C16_MeanOfDayRates ==
    Summarised =>
        LET s == smOut.value.summary
            n == Len(smDays)
        IN  /\ s.days = n
            /\ n = 0 => s.passRate = Ratio(0, 1)
            /\ (n >= 1 /\ AllJudged) => IsMeanRate(s.passRate, smDays)
            /\ (n = 1 /\ AllJudged) =>
                  s.passRate = Ratio(passed(smDays[1]), Len(smDays[1].rules))

\* Two days with different numbers of verdicts, whose mean rate is not the
\* pooled ratio of their verdicts.
C16_Witness ==
    /\ Summarised
    /\ Len(smDays) = 2
    /\ AllJudged
    /\ Len(smDays[1].rules) # Len(smDays[2].rules)
    /\ smOut.value.summary.passRate # avg_Pooled(smDays)
    /\ IsMeanRate(smOut.value.summary.passRate, smDays)

----------------------------------------------------------------------------
\* buildCsv
\*
\* A row is a JS object, written as the sequence of its own properties in
\* the order Object.keys lists them: for keys that are no array indices (no
\* key below is one) that is the order of insertion.  A property is a pair of
\* a key (characters) and a JS value.  Text is a sequence of characters.

Quote == "\""
Comma == ","
Newline == "\n"

Property(key, value) == [key |-> key, value |-> value]

\* Object.keys(row)
ObjectKeys(row) == [i \in DOMAIN row |-> row[i].key]

\* r[h]: the value of the property h, undefined when the row has none.
Member(row, h) ==
    IF \E i \in DOMAIN row : row[i].key = h
    THEN row[CHOOSE i \in DOMAIN row : row[i].key = h].value
    ELSE Undefined

\* String(v ?? "")
StringOrEmpty(v) == IF v \in {Null, Undefined} THEN <<>> ELSE ToChars(v)

\* /[",\n]/.test(s)
HasSpecial(s) == \E i \in DOMAIN s : s[i] \in {Quote, Comma, Newline}

\* s.replace(/"/g, '""')
RECURSIVE DoubleQuotes(_)
DoubleQuotes(s) ==
    IF s = <<>> THEN <<>>
    ELSE (IF Head(s) = Quote THEN <<Quote, Quote>> ELSE <<Head(s)>>) \o DoubleQuotes(Tail(s))

\* esc without its quoting branch.
esc_Verbatim(v) == StringOrEmpty(v)

\* esc(v)
esc(v) ==
    LET s == StringOrEmpty(v)
    IN  IF HasSpecial(s) THEN <<Quote>> \o DoubleQuotes(s) \o <<Quote>> ELSE s

\* texts.join(sep) of character sequences.
RECURSIVE JoinChars(_, _)
JoinChars(texts, sep) ==
    IF texts = <<>> THEN <<>>
    ELSE IF Len(texts) = 1 THEN texts[1]
    ELSE texts[1] \o <<sep>> \o JoinChars(Tail(texts), sep)

\* The fields of a row in the row's own key order.
cells_OwnOrder(row, headers) == [j \in DOMAIN row |-> esc(row[j].value)]

\* headers.map(h => esc(r[h]))
cells(row, headers) == [j \in DOMAIN headers |-> esc(Member(row, headers[j]))]

\* The header line and the rows' lines.
lines(rows) ==
    LET headers == ObjectKeys(rows[1])
    IN  <<JoinChars(headers, Comma)>>
            \o [i \in DOMAIN rows |-> JoinChars(cells(rows[i], headers), Comma)]

\* buildCsv(rows)
buildCsv(rows) == IF Len(rows) = 0 THEN <<>> ELSE JoinChars(lines(rows), Newline)

\* csv.split("\n").length
RECURSIVE Count(_, _)
Count(s, ch) ==
    IF s = <<>> THEN 0 ELSE (IF Head(s) = ch THEN 1 ELSE 0) + Count(Tail(s), ch)

SplitLength(s, ch) == Count(s, ch) + 1

----------------------------------------------------------------------------
\* buildCsv on drawn rows

MaxCsvRows == 2

KeyA == <<"a">>
KeyB == <<"b">>
\* A key that holds a comma: "x,y".
KeyComma == <<"x", Comma, "y">>

\* The properties a drawn row has, in its own order.
KeyLists == {<<>>, <<KeyA>>, <<KeyB>>, <<KeyComma>>,
             <<KeyA, KeyB>>, <<KeyB, KeyA>>, <<KeyA, KeyComma>>}

\* He said "hi", and\nmore, shortened to: h"i",\nm
Mixed == <<"h", Quote, "i", Quote, Comma, Newline, "m">>

CsvValues ==
    {Str(<<"o", "k">>), Str(<<Comma>>), Str(<<Quote>>), Str(<<Newline>>), Str(Mixed),
     Num(15), Null, Undefined}

\* The values of a two-property row.
CsvValuePairs ==
    {<<Str(<<"o", "k">>), Str(<<Comma>>)>>,
     <<Str(<<Quote>>), Str(<<Newline>>)>>,
     <<Str(Mixed), Num(15)>>,
     <<Null, Str(<<"o", "k">>)>>,
     <<Str(<<"o", "k">>), Undefined>>}

CsvRowPool ==
    {<<>>}
    \cup {<<Property(ks[1], v)>> : ks \in {k \in KeyLists : Len(k) = 1}, v \in CsvValues}
    \cup {<<Property(ks[1], vs[1]), Property(ks[2], vs[2])>> :
             ks \in {k \in KeyLists : Len(k) = 2}, vs \in CsvValuePairs}

\* The rows of the component's self-test.
SelfTestRows ==
    <<<<Property(KeyA, Str(<<"p", "l", "a", "i", "n">>)),
        Property(KeyB, Str(<<"x">>))>>,
      <<Property(KeyA, Str(<<"h", "a", "s", Comma, "c", "o", "m", "m", "a">>)),
        Property(KeyB, Str(<<"m", "u", "l", "t", "i", Newline, "l", "i", "n", "e">>))>>,
      <<Property(KeyA, Str(<<"q", "u", "o", "t", "e", " ", Quote, "q", Quote>>)),
        Property(KeyB, Str(<<"o", "k">>))>>>>

InitCsv ==
    /\ ParseIdle
    /\ EvalIdle
    /\ SaveIdle
    /\ SumIdle
    /\ CompIdle
    /\ FormIdle
    /\ NoteIdle
    /\ csvRows \in UNION {[1..n -> CsvRowPool] : n \in 0..MaxCsvRows} \cup {SelfTestRows}
    /\ csvOut = NotRun

\* One call of buildCsv: the text it returns, and the fields esc returned for
\* each row.
BuildCsv ==
    /\ csvOut = NotRun
    /\ csvOut' = Normal([csv |-> buildCsv(csvRows),
                         fields |-> [i \in DOMAIN csvRows |->
                                        cells(csvRows[i], ObjectKeys(csvRows[1]))]])
    /\ UNCHANGED <<csvRows, parseVars, evalVars, saveVars, sumVars, compVars, formVars, noteVars>>

NextCsv == BuildCsv

SpecCsv == InitCsv /\ [][NextCsv]_vars

Built == csvOut.c = "normal"

\* C17: for at least one row the text is the first row's keys joined by
\* commas, then one record per row, joined by newlines; a record lists the
\* row's values under the header's keys in the header's order, whatever the
\* row's own order and whatever other keys it has.  No row gives the empty text.
C17_HeaderThenRecords ==
    Built =>
        IF csvRows = <<>> THEN csvOut.value.csv = <<>>
        ELSE LET header == ObjectKeys(csvRows[1])
                 record(i) ==
                     JoinChars([j \in DOMAIN header |-> esc(Member(csvRows[i], header[j]))],
                               Comma)
             IN  /\ csvOut.value.csv =
                        JoinChars(<<JoinChars(header, Comma)>>
                                      \o [i \in DOMAIN csvRows |-> record(i)],
                                  Newline)
                 /\ \A i \in DOMAIN csvRows : Len(csvOut.value.fields[i]) = Len(header)

\* A second row that lists the header's two keys in the other order, with
\* different values.
C17_Witness ==
    /\ Built
    /\ Len(csvRows) = 2
    /\ ObjectKeys(csvRows[1]) = <<KeyA, KeyB>>
    /\ ObjectKeys(csvRows[2]) = <<KeyB, KeyA>>
    /\ csvOut.value.fields[2][1] # csvOut.value.fields[2][2]
    /\ csvOut.value.fields[2][1] = esc(csvRows[2][2].value)

\* The text a quoted field stands for: the field without its two outer quotes
\* and with each pair of quotes read as one; <<"?">> when the field is not so built.
RECURSIVE Undoubled(_)
Undoubled(s) ==
    IF s = <<>> THEN <<>>
    ELSE IF Head(s) # Quote THEN <<Head(s)>> \o Undoubled(Tail(s))
    ELSE IF Len(s) >= 2 /\ s[2] = Quote THEN <<Quote>> \o Undoubled(Tail(Tail(s)))
    ELSE <<"?">>

Unquoted(field) ==
    IF Len(field) >= 2 /\ Head(field) = Quote /\ field[Len(field)] = Quote
    THEN Undoubled(SubSeq(field, 2, Len(field) - 1))
    ELSE <<"?">>

\* C18: a field whose text holds a comma, a quote or a newline is emitted
\* between quotes with each quote of the text doubled; any other text is
\* emitted as it is; null, undefined and a key the row lacks give the empty field.
C18_QuotingRule ==
    Built =>
        \A i \in DOMAIN csvRows :
            \A j \in DOMAIN ObjectKeys(csvRows[1]) :
                LET v == Member(csvRows[i], ObjectKeys(csvRows[1])[j])
                    s == IF v \in {Null, Undefined} THEN <<>> ELSE ToChars(v)
                    field == csvOut.value.fields[i][j]
                IN  /\ HasSpecial(s) =>
                          /\ Unquoted(field) = s
                          /\ Len(field) = Len(s) + Count(s, Quote) + 2
                    /\ ~HasSpecial(s) => field = s
                    /\ v \in {Null, Undefined} => field = <<>>

\* A field with quotes in its text, a plain field and an absent one are emitted.
C18_Witness ==
    /\ Built
    /\ Len(csvRows) = 2
    /\ ObjectKeys(csvRows[1]) = <<KeyA, KeyB>>
    /\ ObjectKeys(csvRows[2]) = <<KeyA>>
    /\ csvRows[1][1].value = Str(Mixed)
    /\ csvOut.value.fields[1][1] =
          <<Quote, "h", Quote, Quote, "i", Quote, Quote, Comma, Newline, "m", Quote>>
    /\ csvOut.value.fields[1][2] = <<"1", ".", "5">>
    /\ csvOut.value.fields[2][2] = <<>>

\* C19: for N >= 1 rows, splitting the text at the newlines gives N + 1 pieces.
C19_SplitGivesRowsPlusOne ==
    (Built /\ Len(csvRows) >= 1) =>
        SplitLength(csvOut.value.csv, Newline) = Len(csvRows) + 1

\* Reading a text by the standard quoting rules: a quote at the start of a
\* field opens a quoted part, in which a doubled quote is a quote and commas
\* and newlines are text; elsewhere a comma ends the field and a newline the
\* record.
RECURSIVE CsvScan(_, _, _, _, _)
CsvScan(text, quoted, field, record, records) ==
    IF text = <<>> THEN Append(records, Append(record, field))
    ELSE LET ch == Head(text)
             rest == Tail(text)
         IN  IF quoted
             THEN IF ch # Quote THEN CsvScan(rest, TRUE, Append(field, ch), record, records)
                  ELSE IF rest # <<>> /\ Head(rest) = Quote
                       THEN CsvScan(Tail(rest), TRUE, Append(field, Quote), record, records)
                       ELSE CsvScan(rest, FALSE, field, record, records)
             ELSE IF ch = Quote /\ field = <<>>
                  THEN CsvScan(rest, TRUE, field, record, records)
             ELSE IF ch = Comma
                  THEN CsvScan(rest, FALSE, <<>>, Append(record, field), records)
             ELSE IF ch = Newline
                  THEN CsvScan(rest, FALSE, <<>>, <<>>, Append(records, Append(record, field)))
             ELSE CsvScan(rest, FALSE, Append(field, ch), record, records)

ParseCsv(text) == CsvScan(text, FALSE, <<>>, <<>>, <<>>)

\* The records the rows stand for: the header's keys, then each row's texts
\* under those keys.
Records(rows) ==
    LET header == ObjectKeys(rows[1])
    IN  <<header>> \o [i \in DOMAIN rows |->
                          [j \in DOMAIN header |-> StringOrEmpty(Member(rows[i], header[j]))]]

RoundTripOfPlainKeys ==
    (Built /\ csvRows # <<>> /\ csvRows[1] # <<>>
        /\ \A j \in DOMAIN csvRows[1] : ~HasSpecial(csvRows[1][j].key)) =>
        ParseCsv(csvOut.value.csv) = Records(csvRows)

----------------------------------------------------------------------------
\* The component: the state that selects a range and the loads of that range
\*
\* The effect on [trader, startISO, endISO, settings] starts a load each time
\* one of the four changes and returns no cleanup.  Every load waits the same
\* delay, so loads settle in the order they were started.  (The plans and the
\* journal entries, which the range load neither reads nor writes, are not
\* part of this specification.)

\* Loads in flight at a time.
MaxInFlight == 2

FocusDates == (Today - MaxBack)..Today
\* What the settings form sends for the risk threshold.
RiskInputs == {Num(10), Num(50)}

NameMaxRiskOne == <<"M", "a", "x", " ", "R", "i", "s", "k", " ", "1", "%">>

\* What fetchRulesFromBackend resolves to: [] when the request fails, else the
\* records of the response.
BackendRules ==
    {<<>>, <<APIRule(1, Str(NameMaxRiskOne), Obj([max_risk_percent |-> Num(10)]))>>}

\* `const startISO = addDays(focusDate, -(rangeDays - 1))`
startISO(focus, days) == addDays(focus, -(days - 1))

\* The arguments of one call of loadChecklistRange.
Request(tr, focus, days, st) ==
    [trader |-> tr, startISO |-> startISO(focus, days), endISO |-> focus, settings |-> st]

CurrentRequest == Request(trader, focusDate, rangeDays, settings)

\* The effect, run after a render in which a dependency changed:
\* `setLoading(true); loadChecklistRange(...).then(setList).finally(...)`.
RangeLoadEffect(tr, focus, days, st) ==
    /\ Len(pending) < MaxInFlight
    /\ loading' = TRUE
    /\ pending' = Append(pending, Request(tr, focus, days, st))
    /\ UNCHANGED <<list, lastSave, shown, functionVars, noteVars>>

\* The state after the first render and its effects.
InitComp ==
    /\ trader = DefaultTrader
    /\ focusDate = Today
    /\ rangeDays = 7
    /\ settings = DefaultSettings
    /\ serverRules = Null
    /\ list = <<>>
    /\ loading = TRUE
    /\ pending = <<Request(DefaultTrader, Today, 7, DefaultSettings)>>
    /\ lastSave = [t |-> "none"]
    /\ shown = [t |-> "none"]

Init ==
    /\ ParseIdle
    /\ EvalIdle
    /\ SaveIdle
    /\ SumIdle
    /\ CsvIdle
    /\ FormIdle
    /\ NoteIdle
    /\ InitComp

\* The trader input: `onChange={e => setTrader(e.target.value)}`
SetTrader ==
    \E v \in Traders \ {trader} :
        /\ trader' = v
        /\ RangeLoadEffect(v, focusDate, rangeDays, settings)
        /\ UNCHANGED <<focusDate, rangeDays, settings, serverRules>>

\* setFocusDate(d) with a date other than the current one.
SetFocusDate(d) ==
    /\ d \in FocusDates \ {focusDate}
    /\ focusDate' = d
    /\ RangeLoadEffect(trader, d, rangeDays, settings)
    /\ UNCHANGED <<trader, rangeDays, settings, serverRules>>

\* The date input.
PickFocusDate == \E d \in FocusDates : SetFocusDate(d)

\* The Prev, Next and Today buttons.
PrevDay == SetFocusDate(addDays(focusDate, -1))
NextDay == SetFocusDate(addDays(focusDate, 1))
GoToday == SetFocusDate(Today)

\* The range select.
SetRangeDays ==
    \E n \in RangeOptions \ {rangeDays} :
        /\ rangeDays' = n
        /\ RangeLoadEffect(trader, focusDate, n, settings)
        /\ UNCHANGED <<trader, focusDate, settings, serverRules>>

\* The settings form: `onChange({ ...v, ...patch })` with a new risk threshold.
EditSettings ==
    \E risk \in RiskInputs \ {settings.maxRiskPercent} :
        LET edited == [settings EXCEPT !.maxRiskPercent = risk]
        IN  /\ settings' = edited
            /\ RangeLoadEffect(trader, focusDate, rangeDays, edited)
            /\ UNCHANGED <<trader, focusDate, rangeDays, serverRules>>

\* handleLoadRules once the fetch has resolved: setServerRules(rules), then
\* the settings parseRulesToSettings gives, always a new object, so that the
\* effect runs again.  (The backend's records here all carry a name.)
handleLoadRules ==
    \E rules \in BackendRules :
        LET parsed == parseRulesToSettings(rules, settings)
        IN  /\ parsed.c = "normal"
            /\ serverRules' = List(rules)
            /\ settings' = parsed.value
            /\ RangeLoadEffect(trader, focusDate, rangeDays, parsed.value)
            /\ UNCHANGED <<trader, focusDate, rangeDays>>

\* handleSaveSettings: saveSettingsToBackend(settings, serverRules), its
\* exception caught and logged.  No state of the component is written; the
\* bulk write is answered with an ok status or another.  lastSave keeps how
\* the call ended and whether the bulk write was issued, not the body sent.
handleSaveSettings ==
    /\ \E ok \in BOOLEAN :
          lastSave' = [t |-> "done",
                       existing |-> serverRules,
                       out |-> LET r == saveSettingsToBackend(settings, serverRules, ok)
                               IN  [c |-> r.c, e |-> r.e, posted |-> r.posted]]
    /\ UNCHANGED <<trader, focusDate, rangeDays, settings, serverRules, list, loading,
                   pending, shown, functionVars, noteVars>>

\* The oldest load in flight settles: `.then(setList)` when it fulfils, and
\* `.finally(() => setLoading(false))` either way.
RangeLoadSettles ==
    /\ pending # <<>>
    /\ LET req == Head(pending)
           days == loadChecklistRange(req.trader, req.startISO, req.endISO, req.settings)
       IN  /\ list' = IF days.c = "normal" THEN days.value ELSE list
           /\ shown' = IF days.c = "normal"
                       THEN [t |-> "load", request |-> req, current |-> req = CurrentRequest]
                       ELSE shown
    /\ loading' = FALSE
    /\ pending' = Tail(pending)
    /\ UNCHANGED <<trader, focusDate, rangeDays, settings, serverRules, lastSave, functionVars, noteVars>>

Next ==
    \/ SetTrader
    \/ PickFocusDate
    \/ PrevDay
    \/ NextDay
    \/ GoToday
    \/ SetRangeDays
    \/ EditSettings
    \/ handleLoadRules
    \/ handleSaveSettings
    \/ RangeLoadSettles

Spec == Init /\ [][Next]_vars

----------------------------------------------------------------------------
\* Claims about the range loads (under Spec)

\* C7: stale range results are never committed.  In every reachable state the
\* displayed list is the initial empty list, or the result of a load whose
\* (trader, start, end, settings) was the current one when its result was
\* committed.
C7_NoStaleCommit ==
    \/ shown.t = "none" /\ list = <<>>
    \/ shown.t = "load" /\ shown.current

\* The latest save was made when no record collection had been loaded.
SavedWithoutRules == lastSave.t = "done" /\ lastSave.existing = Null

\* C14: saving while serverRules is still null fails with the error 'No
\* server rules loaded yet': no bulk write is issued, and settings and
\* serverRules are as they were.
C14_SaveWithoutRules ==
    [][(lastSave' # lastSave /\ serverRules = Null) =>
          /\ lastSave'.out.c = "throw"
          /\ lastSave'.out.e = ErrorNoRules
          /\ ~lastSave'.out.posted
          /\ settings' = settings
          /\ serverRules' = serverRules]_vars

\* A save made before any load of the rules, after an edit of the settings.
C14_Witness ==
    SavedWithoutRules /\ serverRules = Null /\ settings # DefaultSettings

----------------------------------------------------------------------------
\* The pre-entry journal form

Abs(n) == IF n < 0 THEN -n ELSE n

\* x || 0 and Number(x) || 0 of a number held in the form's state.
OrZero(n) == IF n = 0 THEN 0 ELSE n

riskPoints(entry, sl) == Abs(OrZero(entry) - OrZero(sl))

cashRisk_Signed(entry, sl, valuePerPoint, lots) ==
    (OrZero(entry) - OrZero(sl)) * OrZero(valuePerPoint) * OrZero(lots)

cashRisk(entry, sl, valuePerPoint, lots) ==
    riskPoints(entry, sl) * OrZero(valuePerPoint) * OrZero(lots)

profitAtTP(risk, rr) == risk * OrZero(rr)

\* equity ? (cashRisk / equity) * 100 : 0, as the exact quotient.
riskPct(risk, equity) == IF equity # 0 THEN Ratio(risk * 100, equity) ELSE Ratio(0, 1)

\* save(): the entry handed to onSave.  now is the clock's reading, which
\* gives the id (with dateISO) and createdAt; mood and conditions are the
\* form's texts.
JournalPayload(f) ==
    LET risk == cashRisk(f.entry, f.sl, f.valuePerPoint, f.lots)
    IN  [id |-> [date |-> f.dateISO, now |-> f.now],
         createdAt |-> f.now,
         mood |-> f.mood,
         conditions |-> f.conditions,
         entry |-> OrZero(f.entry),
         lots |-> OrZero(f.lots),
         sl |-> OrZero(f.sl),
         rr |-> OrZero(f.rr),
         valuePerPoint |-> OrZero(f.valuePerPoint),
         equityAtEntry |-> f.equity,
         riskCash |-> risk,
         riskPct |-> riskPct(risk, f.equity),
         profitAtTP |-> profitAtTP(risk, f.rr),
         lossAtSL |-> risk]

\* The prices, sizes and equities the form is given: non-negative integers,
\* with the stop on either side of the entry and with an account of no equity.
MaxSize == 2
Prices == {0, 1, 99, 100}
Equities == {0, 3, 1000}

InitForm ==
    /\ jfIn \in [dateISO : {Today}, now : {1}, mood : {"Calm"}, conditions : {"plan"},
                 entry : Prices, sl : Prices, lots : 0..MaxSize, rr : 0..MaxSize,
                 valuePerPoint : 0..MaxSize, equity : Equities]
    /\ jfOut = NotRun
    /\ ParseIdle
    /\ EvalIdle
    /\ SaveIdle
    /\ SumIdle
    /\ CsvIdle
    /\ CompIdle
    /\ NoteIdle

SaveEntry ==
    /\ jfOut = NotRun
    /\ jfOut' = Normal(JournalPayload(jfIn))
    /\ UNCHANGED <<jfIn, parseVars, evalVars, saveVars, sumVars, csvVars, compVars, noteVars>>

NextForm == SaveEntry

SpecForm == InitForm /\ [][NextForm]_vars

\* C24: every entry saved from the form has riskCash = |entry - sl| *
\* valuePerPoint * lots, lossAtSL = riskCash, profitAtTP = riskCash * rr and
\* riskPct = 100 * riskCash / equity, or 0 when the equity is 0.
C24_DerivedFields ==
    jfOut # NotRun =>
        LET e == jfOut.value
            points == IF e.entry >= e.sl THEN e.entry - e.sl ELSE e.sl - e.entry
        IN  /\ e.riskCash = points * e.valuePerPoint * e.lots
            /\ e.lossAtSL = e.riskCash
            /\ e.profitAtTP = e.riskCash * e.rr
            /\ IF e.equityAtEntry = 0
               THEN e.riskPct.p = 0
               ELSE e.riskPct.p * e.equityAtEntry = 100 * e.riskCash * e.riskPct.q

\* The example of the self-test: entry 100, stop 99, one lot, one per point,
\* reward 2 to 1 and an equity of 1000 give a risk of 1, a profit of 2 and
\* 0.1 percent at risk; and an entry whose stop is above it has been saved.
C24_Witness ==
    /\ jfOut # NotRun
    /\ jfIn.entry = 100 /\ jfIn.sl = 99 /\ jfIn.lots = 1 /\ jfIn.valuePerPoint = 1
    /\ jfIn.rr = 2 /\ jfIn.equity = 1000
    /\ jfOut.value.riskCash = 1
    /\ jfOut.value.profitAtTP = 2
    /\ jfOut.value.lossAtSL = 1
    /\ jfOut.value.riskPct = Ratio(1, 10)

----------------------------------------------------------------------------
\* The displayed days while the thresholds are edited (SpecDisplay)
\*
\* The component with its settings form and its range loads only: the trader,
\* the focus date and the range stay as they are after the first render.

\* What the settings form sends for the least reward to risk.
RRInputs == {Num(15), Num(20)}

\* The settings form: `onChange({ ...v, ...patch })`, the patch being a new
\* risk threshold, a new least reward to risk or the journal requirement.
EditThreshold ==
    \E edited \in {[settings EXCEPT !.maxRiskPercent = risk] : risk \in RiskInputs}
                  \cup {[settings EXCEPT !.minRRAllowed = rr] : rr \in RRInputs}
                  \cup {[settings EXCEPT !.requireJournalBeforeNewTrade = Bool(b)] :
                           b \in BOOLEAN} :
        /\ edited # settings
        /\ settings' = edited
        /\ RangeLoadEffect(trader, focusDate, rangeDays, edited)
        /\ UNCHANGED <<trader, focusDate, rangeDays, serverRules>>

NextDisplay == EditThreshold \/ RangeLoadSettles

SpecDisplay == Init /\ [][NextDisplay]_vars

\* `const listWithExtras = useMemo(..., [list, plans, journals, settings])`:
\* the days on display.
Displayed == listWithExtras(list, plans, journals, settings)

\* The nine verdicts of the days of a request, all evaluated against st.
AllNineUnder(req, st) ==
    LET days == loadChecklistRange(req.trader, req.startISO, req.endISO, st)
    IN  IF days.c = "normal" THEN listWithExtras(days.value, plans, journals, st) ELSE days

\* C30: in every reachable state the nine verdicts of each displayed day are
\* evaluated against one and the same settings value, the one the list was
\* loaded with or the current one.
C30_OneSettingsValue ==
    shown.t = "load" =>
        \E st \in {shown.request.settings, settings} :
            Displayed = AllNineUnder(shown.request, st)

\* Once no load is in flight, the days on display are the nine verdicts
\* under the current settings.
DisplayedAfterSettling ==
    (shown.t = "load" /\ pending = <<>>) => Displayed = AllNineUnder(shown.request, settings)

----------------------------------------------------------------------------
\* The plans and the journal entries of the component
\*
\* A Record<string, X> is a function on the dates it has a key for.  The
\* backend keeps what was posted, oldest first, and answers a GET with what
\* it holds when it answers.  Requests settle in any order.  (The range
\* loads, which neither read nor write the plans and the journal entries,
\* are followed under Spec.)

\* Requests in flight at a time, items the backend accepts of each type, and
\* saves made from each form.
MaxRequests == 2
MaxStored == 1
MaxPlanSaves == 22
MaxEntries == 2

\* `.slice(0, 20)`
HistoryLimit == 20

\* `prev[date] || []`
ListAt(record, date) == IF date \in DOMAIN record THEN record[date] ELSE <<>>

\* `{ ...prev, [date]: x }`
WithKey(record, date, x) == (date :> x) @@ record

\* The plan the pre-trade form saves: `submittedAt: new Date().toISOString()`.
FormPlan ==
    PreTradePlan(MoodCalm, Num(10), List(<<WindowA>>), TimeTen, TimeNine, Num(20),
                 DateTime(Today))

\* The entry the journal form saves, the clock reading now.
JournalTexts == {"breakout", "pullback"}
FormEntry(date, now, text) ==
    JournalPayload([dateISO |-> date, now |-> now, mood |-> "Calm", conditions |-> text,
                    entry |-> 100, sl |-> 99, lots |-> 1, rr |-> 2, valuePerPoint |-> 1,
                    equity |-> 1000])

\* savePlanToBackend: the item the backend keeps of the body posted.
PlanItem(p) ==
    StoredItem([mood |-> Get(p, "mood"), plannedTrades |-> Get(p, "plannedTrades"),
                plannedWindows |-> Get(p, "plannedWindows"),
                expectedHighTime |-> Get(p, "expectedHighTime"),
                expectedLowTime |-> Get(p, "expectedLowTime"),
                rrTarget |-> Get(p, "rrTarget"), notes |-> Get(p, "notes"),
                submittedAt |-> Get(p, "submittedAt")])

\* saveJournalToBackend: the condition of the body posted; the id and the
\* createdAt of the entry are not sent.
JournalCondition(e) ==
    [mood |-> e.mood, conditions |-> e.conditions, entry |-> e.entry, lots |-> e.lots,
     sl |-> e.sl, rr |-> e.rr, valuePerPoint |-> e.valuePerPoint,
     equityAtEntry |-> e.equityAtEntry, riskCash |-> e.riskCash, riskPct |-> e.riskPct,
     profitAtTP |-> e.profitAtTP, lossAtSL |-> e.lossAtSL]

\* The item the backend keeps of a posted entry: it numbers its items and
\* stamps them with the day it receives them.
JournalItem(k, e) ==
    [id |-> Num(10 * k), created_at |-> DateTime(Today), condition |-> JournalCondition(e)]

\* loadJournalsFromBackend: [] when the response is not ok; else each item
\* mapped, `id: item.id?.toString() || \`journal_${index}\``.
loadJournalsFromBackend(data, ok) ==
    IF ~ok THEN <<>>
    ELSE [i \in DOMAIN data |->
            LET item == data[i]
                c == item.condition
            IN  [id |-> IF NotNullish(item.id) THEN [n |-> item.id.n \div 10]
                        ELSE [index |-> i - 1],
                 createdAt |-> item.created_at,
                 mood |-> c.mood, conditions |-> c.conditions, entry |-> c.entry,
                 lots |-> c.lots, sl |-> c.sl, rr |-> c.rr,
                 valuePerPoint |-> c.valuePerPoint, equityAtEntry |-> c.equityAtEntry,
                 riskCash |-> c.riskCash, riskPct |-> c.riskPct,
                 profitAtTP |-> c.profitAtTP, lossAtSL |-> c.lossAtSL]]

\* journalsRecord: the entries by the date of their createdAt, in the order
\* of the array.
RECURSIVE journalsRecord(_, _)
journalsRecord(journalData, focus) ==
    IF journalData = <<>> THEN <<>>
    ELSE LET last == journalData[Len(journalData)]
             rest == journalsRecord(SubSeq(journalData, 1, Len(journalData) - 1), focus)
             date == DateOr(last.createdAt, focus)
         IN  WithKey(rest, date, Append(ListAt(rest, date), last))

\* The requests.  A POST carries the item to keep; a GET is the reload of
\* the plans, of the journal entries or (the effect on [accountNumber,
\* focusDate]) of both, with the focus date of the render that started it
\* and, once answered, the arrays its promises resolved to.
PostOf(what, item, focus) == [op |-> "post", what |-> what, item |-> item, focus |-> focus]
GetOf(what, focus) ==
    [op |-> "get", what |-> what, focus |-> focus, answered |-> FALSE,
     planData |-> <<>>, journalData |-> <<>>]

Started(request) ==
    /\ Len(inFlight) < MaxRequests
    /\ inFlight' = Append(inFlight, request)

WithoutRequest(i) == SubSeq(inFlight, 1, i - 1) \o SubSeq(inFlight, i + 1, Len(inFlight))

\* The state after the first render and its effects: the reload of both is
\* in flight.
InitNotes ==
    /\ ParseIdle
    /\ EvalIdle
    /\ SaveIdle
    /\ SumIdle
    /\ CsvIdle
    /\ FormIdle
    /\ CompIdle
    /\ plans = <<>>
    /\ journals = <<>>
    /\ planHistory = <<>>
    /\ planStore = <<>>
    /\ journalStore = <<>>
    /\ inFlight = <<GetOf("all", Today)>>
    /\ planSaves = [d \in FocusDates |-> 0]
    /\ entrySaves = 0
    /\ savedEntries = {}
    /\ removed = {}

otherVars ==
    <<functionVars, trader, rangeDays, settings, serverRules, list, loading, pending,
      lastSave, shown>>

\* setFocusDate(d) with another date, and the effect on [accountNumber,
\* focusDate]: Promise.all of the two loads.
FocusDateChanges ==
    \E d \in FocusDates \ {focusDate} :
        /\ focusDate' = d
        /\ Started(GetOf("all", d))
        /\ UNCHANGED <<plans, journals, planHistory, planStore, journalStore, planSaves,
                       entrySaves, savedEntries, removed, otherVars>>

\* `[entry, ...(prev[focusDate] || [])].slice(0, 20)`
Newest_All(entries) == entries

Newest(entries) ==
    SubSeq(entries, 1, IF Len(entries) < HistoryLimit THEN Len(entries) ELSE HistoryLimit)

RECURSIVE SavesIn(_)
SavesIn(dates) ==
    IF dates = {} THEN 0
    ELSE LET d == CHOOSE x \in dates : TRUE IN planSaves[d] + SavesIn(dates \ {d})

PlanSavesMade == SavesIn(FocusDates)

\* handlePlanSaved(p).  Date.now() is written as the number of the save
\* among the saves of its focus date: later saves read a later clock.
handlePlanSaved ==
    LET p == FormPlan
        now == planSaves[focusDate] + 1
        entry == [id |-> [date |-> focusDate, now |-> now], savedAt |-> now, plan |-> p]
    IN  /\ PlanSavesMade < MaxPlanSaves
        /\ plans' = WithKey(plans, focusDate, p)
        /\ planHistory' = WithKey(planHistory, focusDate,
                                  Newest(<<entry>> \o ListAt(planHistory, focusDate)))
        /\ planSaves' = [planSaves EXCEPT ![focusDate] = now]
        /\ Started(PostOf("plan", PlanItem(p), focusDate))
        /\ UNCHANGED <<journals, planStore, journalStore, entrySaves, savedEntries, removed,
                       focusDate, otherVars>>

\* saveJournalEntry(e), e the entry the form saves under the focus date.
saveJournalEntry ==
    \E text \in JournalTexts :
        LET e == FormEntry(focusDate, entrySaves + 1, text)
        IN  /\ entrySaves < MaxEntries
            /\ entrySaves' = entrySaves + 1
            /\ journals' = WithKey(journals, focusDate, Append(ListAt(journals, focusDate), e))
            /\ savedEntries' = savedEntries \cup {[date |-> focusDate, e |-> e]}
            /\ Started(PostOf("journal", e, focusDate))
            /\ UNCHANGED <<plans, planHistory, planStore, journalStore, planSaves, removed,
                           focusDate, otherVars>>

\* An entry holds what e holds: the fields the form filled in, whatever id
\* and createdAt it carries.
SameEntry(x, e) == JournalCondition(x) = JournalCondition(e)

\* removeJournalEntry(id), from the button of an entry of the focus date.
\* (savedEntries forgets what the removed entries hold, under the id the
\* form gave them or the one the backend gave them.)
removeJournalEntry(id) ==
    /\ journals' = WithKey(journals, focusDate,
                           SelectSeq(ListAt(journals, focusDate), LAMBDA x : x.id # id))
    /\ removed' = removed \cup {id}
    /\ savedEntries' =
          {s \in savedEntries :
              \A i \in DOMAIN ListAt(journals, focusDate) :
                  journals[focusDate][i].id = id => ~SameEntry(journals[focusDate][i], s.e)}
    /\ UNCHANGED <<plans, planHistory, planStore, journalStore, inFlight, planSaves,
                   entrySaves, focusDate, otherVars>>

RemoveEntry ==
    \E i \in DOMAIN ListAt(journals, focusDate) :
        removeJournalEntry(journals[focusDate][i].id)

\* The backend answers a POST: with an ok status, keeping the item, and the
\* `.then` starts the reload; or with another status, and the `.catch` logs.
BackendStores ==
    \E i \in DOMAIN inFlight, ok \in BOOLEAN :
        LET r == inFlight[i]
        IN  /\ r.op = "post"
            /\ IF ok
               THEN /\ IF r.what = "plan"
                       THEN /\ Len(planStore) < MaxStored
                            /\ planStore' = Append(planStore, r.item)
                            /\ UNCHANGED journalStore
                       ELSE /\ Len(journalStore) < MaxStored
                            /\ journalStore' =
                                  Append(journalStore, JournalItem(Len(journalStore) + 1, r.item))
                            /\ UNCHANGED planStore
                    /\ inFlight' = [inFlight EXCEPT
                                      ![i] = GetOf(IF r.what = "plan" THEN "plans" ELSE "journals",
                                                   r.focus)]
               ELSE /\ inFlight' = WithoutRequest(i)
                    /\ UNCHANGED <<planStore, journalStore>>
            /\ UNCHANGED <<plans, journals, planHistory, planSaves, entrySaves,
                           savedEntries, removed, focusDate, otherVars>>

\* The backend answers a GET: each load resolves to what the backend holds,
\* or to [] when its response is not ok.
BackendAnswers ==
    \E i \in DOMAIN inFlight, okPlans \in BOOLEAN, okJournals \in BOOLEAN :
        LET r == inFlight[i]
        IN  /\ r.op = "get"
            /\ ~r.answered
            /\ r.what = "plans" => okJournals
            /\ r.what = "journals" => okPlans
            /\ inFlight' = [inFlight EXCEPT
                  ![i] = [r EXCEPT
                            !.answered = TRUE,
                            !.planData = IF r.what = "journals" THEN <<>>
                                         ELSE loadPlansFromBackend(planStore, okPlans),
                            !.journalData = IF r.what = "plans" THEN <<>>
                                            ELSE loadJournalsFromBackend(journalStore,
                                                                         okJournals)]]
            /\ UNCHANGED <<plans, journals, planHistory, planStore, journalStore, planSaves,
                           entrySaves, savedEntries, removed, focusDate, otherVars>>

\* The `.then` of a reload: setPlans(plansRecord), setJournals(journalsRecord).
ReloadSettles ==
    \E i \in DOMAIN inFlight :
        LET r == inFlight[i]
        IN  /\ r.op = "get"
            /\ r.answered
            /\ plans' = IF r.what = "journals" THEN plans
                        ELSE plansRecord(r.planData, r.focus)
            /\ journals' = IF r.what = "plans" THEN journals
                           ELSE journalsRecord(r.journalData, r.focus)
            /\ inFlight' = WithoutRequest(i)
            /\ UNCHANGED <<planHistory, planStore, journalStore, planSaves, entrySaves,
                           savedEntries, removed, focusDate, otherVars>>

NextPlans ==
    \/ FocusDateChanges
    \/ handlePlanSaved
    \/ BackendStores
    \/ BackendAnswers
    \/ ReloadSettles

SpecPlans == InitNotes /\ [][NextPlans]_vars

NextJournal ==
    \/ FocusDateChanges
    \/ saveJournalEntry
    \/ RemoveEntry
    \/ BackendStores
    \/ BackendAnswers
    \/ ReloadSettles

SpecJournal == InitNotes /\ [][NextJournal]_vars

----------------------------------------------------------------------------
\* Claims about the plans (under SpecPlans)

\* The history entry of the n-th save made for a date.
SaveNumber(date, n) ==
    [id |-> [date |-> date, now |-> n], savedAt |-> n, plan |-> FormPlan]

\* C23: for every date the plan save history holds exactly the min(k, 20)
\* most recent of the k saves made for that date, newest first; the saves
\* made for another date are not in it.
C23_HistoryOfNewestTwenty ==
    \A d \in FocusDates :
        LET k == planSaves[d]
            held == ListAt(planHistory, d)
        IN  /\ Len(held) = (IF k < 20 THEN k ELSE 20)
            /\ \A i \in DOMAIN held : held[i] = SaveNumber(d, k - i + 1)

\* One date has had more saves than the history keeps and the other date
\* has had a save of its own.
C23_Witness ==
    /\ planSaves[Today - 1] = 21
    /\ planSaves[Today] = 1
    /\ Len(planHistory[Today - 1]) = 20
    /\ planHistory[Today - 1][20] = SaveNumber(Today - 1, 2)
    /\ planHistory[Today] = <<SaveNumber(Today, 1)>>

\* The step in which the reload started by a plan save settles, the reload
\* having delivered the plans the backend holds.
SaveReloadSettles(i) ==
    /\ inFlight[i].op = "get"
    /\ inFlight[i].what = "plans"
    /\ inFlight[i].answered
    /\ inFlight[i].planData # <<>>
    /\ inFlight' = WithoutRequest(i)
    /\ plans' = plansRecord(inFlight[i].planData, inFlight[i].focus)

\* C27: a plan saved while the focus date is D stays the current plan for D.
\* When the backend save and the reload it triggers have completed, plans[D]
\* is the saved plan and no other date's current plan has changed.
C27_SavedPlanStaysCurrent ==
    [][\A i \in DOMAIN inFlight :
          SaveReloadSettles(i) =>
              LET D == inFlight[i].focus
              IN  /\ Lookup(plans', D) = FormPlan
                  /\ \A d \in FocusDates \ {D} : Lookup(plans', d) = Lookup(plans, d)]_vars

\* The same for a save made while the focus date is the calendar date of
\* the submission: the saved plan is the current plan of that date.
PlanOfSubmissionDateStays ==
    [][\A i \in DOMAIN inFlight :
          (SaveReloadSettles(i) /\ inFlight[i].focus = Today) =>
              Lookup(plans', Today) = FormPlan]_vars

----------------------------------------------------------------------------
\* Claims about the journal entries (under SpecJournal)

\* C28: a saved journal entry is never lost.  Every entry saved under a
\* focus date D and not removed since is in journals[D], whatever reloads
\* have completed and however its backend save ended.
C28_SavedEntryNeverLost ==
    \A s \in savedEntries :
        \E i \in DOMAIN ListAt(journals, s.date) : SameEntry(journals[s.date][i], s.e)

\* An entry is lost only in the step in which a reload settles.
LostOnlyWhenAReloadSettles ==
    [][(C28_SavedEntryNeverLost /\ ~C28_SavedEntryNeverLost') =>
          \E i \in DOMAIN inFlight :
              /\ inFlight[i].op = "get"
              /\ inFlight[i].answered
              /\ inFlight' = WithoutRequest(i)]_vars

\* C29: removal by identity is permanent.  No entry of journals carries an
\* id that was given to removeJournalEntry.
C29_RemovedNeverReappears ==
    \A d \in DOMAIN journals :
        \A i \in DOMAIN journals[d] : journals[d][i].id \notin removed

\* removeJournalEntry(id) is local to the entry: the focus date's list
\* loses the entries with that id and keeps the others in order, and the
\* lists of the other dates are as they were.
RemovalIsLocal ==
    [][\A id \in removed' \ removed :
          /\ ListAt(journals', focusDate) =
                SelectSeq(ListAt(journals, focusDate), LAMBDA x : x.id # id)
          /\ \A d \in FocusDates \ {focusDate} :
                ListAt(journals', d) = ListAt(journals, d)]_vars

====
